---- MODULE Spec2Model ----
(***************************************************************************)
(* Model of the download engine of gpbackup-s3-plugin                      *)
(* (s3plugin/restore.go: downloadFile and downloadFileInParallel) and of   *)
(* the plugin's retry policy, configuration check, path helpers, delete,   *)
(* restore and upload commands, each with a specification of its own over  *)
(* its own group of variables.                                             *)
(*                                                                         *)
(* A byte of the remote object is modelled by its offset in the object,   *)
(* so the object is the sequence <<0, 1, ..., totalBytes-1>> and a        *)
(* byte-exact copy is a destination equal to that sequence.  A buffer is  *)
(* an identity (a positive integer), a length and a content; a freshly    *)
(* made buffer holds ZeroByte everywhere.                                  *)
(*                                                                         *)
(* finalErr is an interface value written by several goroutines without   *)
(* synchronisation.  It is modelled as the two machine words it is made   *)
(* of (tab, data), each stored by its own step, so that concurrent stores *)
(* may interleave word by word.                                            *)
(***************************************************************************)
EXTENDS Integers, Sequences, FiniteSets, TLC

\* ---- bounds of the model ------------------------------------------------
MaxTimestampLen == 16
MaxTotalBytes == 5
MaxChunkSize == 3
MaxConcurrency == 3
MaxFailures == 2
MaxPlanBytes == 12
MaxPlanChunkSize == 5

\* ---- the scenario of the specification: 12 MiB in chunks of 5 MiB --------
Mebibyte == 1024 * 1024
ExampleTotalBytes == 12 * Mebibyte
ExampleChunkSize == 5 * Mebibyte

VARIABLES
    totalBytes,           \* size of the remote object (what the probe returns)
    downloadChunkSize,    \* config.Options.DownloadChunkSize
    downloadConcurrency,  \* config.Options.DownloadConcurrency
    mainpc,               \* position of the goroutine running downloadFile
    path,                 \* "none", "single" or "parallel"
    ret,                  \* the triple returned by downloadFile
    file,                 \* bytes written to the destination so far
    jobs,                 \* the jobs channel (buffered, never closed)
    waitGroup,            \* counter of the sync.WaitGroup
    downloadBuffers,      \* the downloadBuffers channel: queue of buffer ids
    numberOfWorkers,      \* cap(downloadBuffers) and number of workers started
    bufferPointers,       \* chunk index -> buffer id (NoBuf for nil)
    bufLen,               \* buffer id -> len(buffer)
    bufData,              \* buffer id -> content, a sequence of bytes
    wpc,                  \* worker -> position in its loop
    wjob,                 \* worker -> the chunk j it is working on
    wbuf,                 \* worker -> the buffer it holds
    werr,                 \* worker -> err of the Download of its current iteration
    ri,                   \* reassembler: loop variable i
    rpc,                  \* reassembler: position in its loop
    currentChunk,         \* reassembler: value received from copyChannel[i]
    rerr,                 \* reassembler: err of its last file.Write
    closed,               \* chunk index -> copyChannel[i] is closed
    finalErr,             \* the shared error variable, [tab, data]
    failures,             \* number of failures injected so far
    planned,              \* history: the jobs as the planning loop enqueued them
    writes,               \* history: chunk indices handed to file.Write, in order
    failed,               \* history: the failures that happened
    recorded,             \* history: the first failure stored in finalErr
    counts,               \* history: chunk index -> how often it was pulled,
                          \*          requested, sent and received
    retryer,              \* the CustomRetryer: its NumMaxRetries
    req,                  \* the request handed to ShouldRetry
    willRetry,            \* what ShouldRetry returned
    retrypc,              \* "idle", "called" or "returned"
    timestamp,            \* DeleteBackup: c.Args().Get(1), a sequence of characters
    deletepc,             \* DeleteBackup: position
    deleteErr,            \* DeleteBackup: the error returned
    deleteSteps,          \* DeleteBackup: what it did to the outside, in order
    configGiven,          \* history: the PluginConfig as it was handed over
    config,               \* the PluginConfig handed to InitializeAndValidateConfig
    configErr,            \* errTxt: the messages collected, in order
    configpc,             \* "idle", "called" or "returned"
    callArgs,             \* the arguments of a helper function
    callResult,           \* what the helper function returned
    callpc,               \* "idle", the function called, or "returned"
    dirCommand,           \* directory transfer: "restore" or "backup"
    dirArgs,              \* directory transfer: c.Args(), a sequence of texts
    parallel,             \* directory transfer: the number of workers
    fileList,             \* directory transfer: file -> its size in bytes
    fileChannel,          \* directory transfer: the closed, buffered jobs channel
    wg,                   \* directory transfer: counter of the sync.WaitGroup
    dirFinalErr,          \* directory transfer: the shared finalErr
    dirTotalBytes,        \* directory transfer: the shared totalBytes
    numFiles,             \* directory transfer: the shared numFiles (restore)
    dirpc,                \* directory transfer: position of the command
    dirReported,          \* directory transfer: the totals printed and the error returned
    dwpc,                 \* directory worker -> position in its loop
    dwfile,               \* directory worker -> the file it took from the channel
    dwbytes,              \* directory worker -> bytes returned by its transfer
    dwtmp,                \* directory worker -> the value it read from a shared counter
    transferred,          \* history: files transferred without error
    restoreCommand,       \* restore: "RestoreFile" or "RestoreDirectory"
    restoreArg,           \* restore: c.Args().Get(1), fileName or dirName
    listing,              \* restore: the keys of bucketObjectsList.Contents
    disk,                 \* restore: the local files, clean path -> content
    restorepc,            \* restore: position of the command
    restoreErr,           \* restore: the error returned
    restoreIndex,         \* restore: position of the loop over the listing
    filename,             \* restore: the local name taken from the key
    localPath,            \* restore: filePath, the path handed to os.Create
    restoreTotals,        \* restore: numFiles and totalBytes
    downloads,            \* history: the keys handed to downloadFile, in order
    restoredFiles,        \* history: the clean paths of the files restored in full
    uploadOptions,        \* uploadFile: the two backup options of the configuration
    uploadObject,         \* uploadFile: the number of bytes of the body
    headReq,              \* uploadFile: the HeadObject request of getFileSize
    uploadpc,             \* uploadFile: position
    uploadRet,            \* uploadFile: the triple returned
    uploadCalls           \* history: the requests sent and their answers, in order

\* the variables of the download engine and those of the retry policy
downloadVars == <<totalBytes, downloadChunkSize, downloadConcurrency, mainpc, path,
                  ret, file, jobs, waitGroup, downloadBuffers, numberOfWorkers,
                  bufferPointers, bufLen, bufData, wpc, wjob, wbuf, werr, ri, rpc,
                  currentChunk, rerr, closed, finalErr, failures, planned, writes,
                  failed, recorded, counts>>
retryVars == <<retryer, req, willRetry, retrypc>>
deleteVars == <<timestamp, deletepc, deleteErr, deleteSteps>>
configVars == <<configGiven, config, configErr, configpc>>
callVars == <<callArgs, callResult, callpc>>
dirVars == <<dirCommand, dirArgs, parallel, fileList, fileChannel, wg,
             dirFinalErr, dirTotalBytes, numFiles, dirpc, dirReported, dwpc,
             dwfile, dwbytes, dwtmp, transferred>>
restoreVars == <<restoreCommand, restoreArg, listing, disk, restorepc,
                 restoreErr, restoreIndex, filename, localPath, restoreTotals,
                 downloads, restoredFiles>>
uploadVars == <<uploadOptions, uploadObject, headReq, uploadpc, uploadRet,
                uploadCalls>>
vars == <<downloadVars, retryVars, deleteVars, configVars, callVars, dirVars,
          restoreVars, uploadVars>>

\* what the steps of one part leave alone
downloadOthers == <<retryVars, deleteVars, configVars, callVars, dirVars,
                    restoreVars, uploadVars>>
retryOthers == <<downloadVars, deleteVars, configVars, callVars, dirVars,
                 restoreVars, uploadVars>>
deleteOthers == <<downloadVars, retryVars, configVars, callVars, dirVars,
                  restoreVars, uploadVars>>
configOthers == <<downloadVars, retryVars, deleteVars, callVars, dirVars,
                  restoreVars, uploadVars>>
callOthers == <<downloadVars, retryVars, deleteVars, configVars, dirVars,
                restoreVars, uploadVars>>
dirOthers == <<downloadVars, retryVars, deleteVars, configVars, callVars,
               restoreVars, uploadVars>>
restoreOthers == <<downloadVars, retryVars, deleteVars, configVars, callVars,
                   dirVars, uploadVars>>
uploadOthers == <<downloadVars, retryVars, deleteVars, configVars, callVars,
                  dirVars, restoreVars>>

\* ---- values ---------------------------------------------------------------
Workers == 1..MaxConcurrency
NoBuf == 0
ZeroByte == -1
IndeterminateByte == -2
NoChunk == -1
NoJob == [chunkIndex |-> NoChunk, startByte |-> 0, endByte |-> -1]
NilErr == [tab |-> "nil", data |-> NoChunk]
ProbeErr == [tab |-> "HeadObject", data |-> NoChunk]
RequestErr(chunkIndex) == [tab |-> "GetObject", data |-> chunkIndex]
WriteErr(chunkIndex) == [tab |-> "Write", data |-> chunkIndex]
NoCounts == [pulled |-> 0, requested |-> 0, sent |-> 0, received |-> 0]
NoRet == [bytes |-> -1, elapsed |-> -1, err |-> NilErr, returned |-> FALSE]

Range(s) == {s[k] : k \in 1..Len(s)}
Min(a, b) == IF a < b THEN a ELSE b
Prefix(s, n) == SubSeq(s, 1, n)
\* the bytes startByte..endByte of the object
ObjectBytes(startByte, endByte) == [k \in 1..(endByte - startByte + 1) |-> startByte + k - 1]

\* ---- the planning loop (restore.go 262-283) -------------------------------
NumberOfChunksFloor(total, size) == total \div size
NumberOfChunks(total, size) == (total + size - 1) \div size

NextStartSame(endByte) == endByte
NextStart(endByte) == endByte + 1

ClampEnd(endByte, total) == IF endByte >= total THEN total - 1 ELSE endByte

RECURSIVE PlanLoop(_, _, _, _, _, _, _)
PlanLoop(chunkIndex, endByte, done, q, total, size, n) ==
    IF chunkIndex < n /\ ~done
    THEN LET s == NextStart(endByte)
             e == ClampEnd(endByte + size, total)
         IN PlanLoop(chunkIndex + 1, e, endByte + size >= total,
                     Append(q, [chunkIndex |-> chunkIndex, startByte |-> s, endByte |-> e]),
                     total, size, n)
    ELSE q

PlanJobs(total, size) == PlanLoop(0, -1, FALSE, <<>>, total, size, NumberOfChunks(total, size))

\* ---- the retry policy: values (s3plugin.go 178-226) -----------------------
MaxRetryCount == 11

\* NumMaxRetries of the session's retryer and of the retryer of the test table
SessionMaxRetries == 10
TestMaxRetries == 5

\* req.Error.  Error() of an SDK error is its code, its message and the text
\* of the error that caused it; the text is kept as the sequence of its parts.
\* class is what the SDK's own rules (request.IsErrorRetryable,
\* request.IsErrorThrottle) make of the error.
NoError == [code |-> "", message |-> <<>>, class |-> "none"]
ConnectionResetByPeer == "connection reset by peer"
RequestError(message, class) == [code |-> "RequestError", message |-> message, class |-> class]
ServiceError(code, message, class) == [code |-> code, message |-> <<message>>, class |-> class]
RequestErrors ==
    { RequestError(<<"send request failed", "caused by", "read tcp", ConnectionResetByPeer>>, "terminal"),
      RequestError(<<"send request failed", "caused by", "write tcp", ConnectionResetByPeer>>, "retryable"),
      RequestError(<<"send request failed", "caused by", "dial tcp", "i/o timeout">>, "retryable"),
      ServiceError("NotFound", "Not Found", "terminal"),
      ServiceError("AccessDenied", "Access Denied", "terminal"),
      ServiceError("RequestTimeout", "Your socket connection to the server was not read from or written to within the timeout period", "retryable"),
      ServiceError("Throttling", "Rate exceeded", "throttle") }

\* req.HTTPResponse.StatusCode; 0 is the response the SDK puts in place when
\* the request got no answer
StatusCodes == {0, 200, 400, 403, 404, 429, 503}

\* req.Retryable: nil, or what an earlier handler decided
RetryableUnset == "nil"
NoRequest == [StatusCode |-> 0, Error |-> NoError, Retryable |-> RetryableUnset, RetryCount |-> 0]

\* the requests ShouldRetry may be handed: Retryable is only ever set
\* together with an error
Requests ==
    { [StatusCode |-> st, Error |-> e, Retryable |-> rt, RetryCount |-> n] :
        st \in StatusCodes, e \in RequestErrors \cup {NoError},
        rt \in {RetryableUnset, "true", "false"}, n \in 0..MaxRetryCount }

RetryIdle ==
    /\ retryer = [NumMaxRetries |-> SessionMaxRetries]
    /\ req = NoRequest
    /\ willRetry = FALSE
    /\ retrypc = "idle"

\* ---- the other parts of the plugin at rest ----------------------------------
DeleteIdle ==
    /\ timestamp = <<>>
    /\ deletepc = "idle"
    /\ deleteErr = <<>>
    /\ deleteSteps = <<>>

ConfigIdle ==
    /\ configGiven = <<>>
    /\ config = <<>>
    /\ configErr = <<>>
    /\ configpc = "idle"

CallIdle ==
    /\ callArgs = <<>>
    /\ callResult = <<>>
    /\ callpc = "idle"

\* restore.go 116, s3plugin.go 461: parallel := 5
DefaultParallel == 5
DirWorkers == 1..DefaultParallel
NoFile == 0
NoReport == [numFiles |-> -1, totalBytes |-> -1, err |-> <<>>]

UploadIdle ==
    /\ uploadOptions = <<>>
    /\ uploadObject = 0
    /\ headReq = NoRequest
    /\ uploadpc = "idle"
    /\ uploadRet = NoRet
    /\ uploadCalls = <<>>

RestoreIdle ==
    /\ restoreCommand = "none"
    /\ restoreArg = <<>>
    /\ listing = <<>>
    /\ disk = <<>>
    /\ restorepc = "idle"
    /\ restoreErr = <<>>
    /\ restoreIndex = 0
    /\ filename = <<>>
    /\ localPath = <<>>
    /\ restoreTotals = [numFiles |-> 0, totalBytes |-> 0]
    /\ downloads = <<>>
    /\ restoredFiles = <<>>

DirIdle ==
    /\ dirCommand = "none"
    /\ dirArgs = <<>>
    /\ parallel = 0
    /\ fileList = <<>>
    /\ fileChannel = <<>>
    /\ wg = 0
    /\ dirFinalErr = <<>>
    /\ dirTotalBytes = 0
    /\ numFiles = 0
    /\ dirpc = "idle"
    /\ dirReported = NoReport
    /\ dwpc = [w \in DirWorkers |-> "unstarted"]
    /\ dwfile = [w \in DirWorkers |-> NoFile]
    /\ dwbytes = [w \in DirWorkers |-> 0]
    /\ dwtmp = [w \in DirWorkers |-> 0]
    /\ transferred = {}

\* ---- initial states -------------------------------------------------------
InitRest ==
    /\ path = "none"
    /\ ret = NoRet
    /\ file = <<>>
    /\ jobs = <<>>
    /\ waitGroup = 0
    /\ downloadBuffers = <<>>
    /\ numberOfWorkers = 0
    /\ bufferPointers = <<>>
    /\ bufLen = <<>>
    /\ bufData = <<>>
    /\ wpc = [w \in Workers |-> "unstarted"]
    /\ wjob = [w \in Workers |-> NoJob]
    /\ wbuf = [w \in Workers |-> NoBuf]
    /\ werr = [w \in Workers |-> NilErr]
    /\ ri = 0
    /\ rpc = "unstarted"
    /\ currentChunk = NoChunk
    /\ rerr = NilErr
    /\ closed = <<>>
    /\ finalErr = NilErr
    /\ failures = 0
    /\ planned = <<>>
    /\ writes = <<>>
    /\ failed = {}
    /\ recorded = NilErr
    /\ counts = <<>>

\* no download is going on
DownloadIdle ==
    /\ totalBytes = 0
    /\ downloadChunkSize = 2
    /\ downloadConcurrency = 1
    /\ mainpc = "none"
    /\ InitRest

\* chunk sizes start at 2 so that a chunk can be transferred in part
Init ==
    /\ totalBytes \in 0..MaxTotalBytes
    /\ downloadChunkSize \in 2..MaxChunkSize
    /\ downloadConcurrency \in 1..MaxConcurrency
    /\ mainpc = "probe"
    /\ InitRest
    /\ RetryIdle /\ DeleteIdle /\ ConfigIdle /\ CallIdle /\ DirIdle /\ RestoreIdle /\ UploadIdle


\* inputs of the planning loop taken on its own: every small pair and the
\* 12 MiB / 5 MiB scenario
PlanInputs ==
    ((0..MaxPlanBytes) \X (1..MaxPlanChunkSize)) \cup {<<ExampleTotalBytes, ExampleChunkSize>>}

InitPlan ==
    /\ \E in \in PlanInputs : totalBytes = in[1] /\ downloadChunkSize = in[2]
    /\ downloadConcurrency \in 1..MaxConcurrency
    /\ mainpc = "plan"
    /\ InitRest
    /\ RetryIdle /\ DeleteIdle /\ ConfigIdle /\ CallIdle /\ DirIdle /\ RestoreIdle /\ UploadIdle

\* ---- downloadFile (restore.go 221-251) ------------------------------------
Returned(bytes, elapsed, err) ==
    [bytes |-> bytes, elapsed |-> elapsed, err |-> err, returned |-> TRUE]

\* lines 231, 242, 245: return 0, -1, err
OnFailureTotal(total, err) == Returned(total, 0, err)
OnFailure(total, err) == Returned(0, -1, err)

\* line 234: the object fits in one chunk
SingleShotStrict(total, size) == total < size
SingleShot(total, size) == total <= size

\* getFileSize answers with the size: choose the path
Probe ==
    /\ mainpc = "probe"
    /\ IF SingleShot(totalBytes, downloadChunkSize)
       THEN mainpc' = "single" /\ path' = "single"
       ELSE mainpc' = "plan" /\ path' = "parallel"
    /\ UNCHANGED <<counts, downloadOthers>>
    /\ UNCHANGED <<totalBytes, downloadChunkSize, downloadConcurrency, ret, file,
                   jobs, waitGroup, downloadBuffers, numberOfWorkers,
                   bufferPointers, bufLen, bufData, wpc, wjob, wbuf, werr, ri,
                   rpc, currentChunk, rerr, closed, finalErr, failures, planned,
                   writes, failed, recorded>>

\* getFileSize fails
ProbeFail ==
    /\ mainpc = "probe"
    /\ failures < MaxFailures
    /\ failures' = failures + 1
    /\ failed' = failed \cup {ProbeErr}
    /\ ret' = OnFailure(totalBytes, ProbeErr)
    /\ mainpc' = "returned"
    /\ UNCHANGED <<counts, downloadOthers>>
    /\ UNCHANGED <<totalBytes, downloadChunkSize, downloadConcurrency, path, file,
                   jobs, waitGroup, downloadBuffers, numberOfWorkers,
                   bufferPointers, bufLen, bufData, wpc, wjob, wbuf, werr, ri,
                   rpc, currentChunk, rerr, closed, finalErr, planned, writes,
                   recorded>>

\* the whole-object request of the single-shot path
SingleDownload ==
    /\ mainpc = "single"
    /\ \/ /\ mainpc' = "singlewrite"
          /\ UNCHANGED <<ret, failures, failed>>
       \/ /\ failures < MaxFailures
          /\ failures' = failures + 1
          /\ failed' = failed \cup {RequestErr(NoChunk)}
          /\ ret' = OnFailure(totalBytes, RequestErr(NoChunk))
          /\ mainpc' = "returned"
    /\ UNCHANGED <<counts, downloadOthers>>
    /\ UNCHANGED <<totalBytes, downloadChunkSize, downloadConcurrency, path, file,
                   jobs, waitGroup, downloadBuffers, numberOfWorkers,
                   bufferPointers, bufLen, bufData, wpc, wjob, wbuf, werr, ri,
                   rpc, currentChunk, rerr, closed, finalErr, planned, writes,
                   recorded>>

\* file.Write(buffer.Bytes()) of the single-shot path; a failing write may
\* have written any proper prefix
SingleWrite ==
    /\ mainpc = "singlewrite"
    /\ \/ /\ file' = file \o ObjectBytes(0, totalBytes - 1)
          /\ ret' = Returned(totalBytes, 0, NilErr)
          /\ UNCHANGED <<failures, failed>>
       \/ /\ failures < MaxFailures
          /\ failures' = failures + 1
          /\ failed' = failed \cup {WriteErr(NoChunk)}
          /\ \E n \in 0..(IF totalBytes = 0 THEN 0 ELSE totalBytes - 1) :
                file' = file \o Prefix(ObjectBytes(0, totalBytes - 1), n)
          /\ ret' = OnFailure(totalBytes, WriteErr(NoChunk))
    /\ mainpc' = "returned"
    /\ UNCHANGED <<counts, downloadOthers>>
    /\ UNCHANGED <<totalBytes, downloadChunkSize, downloadConcurrency, path,
                   jobs, waitGroup, downloadBuffers, numberOfWorkers,
                   bufferPointers, bufLen, bufData, wpc, wjob, wbuf, werr, ri,
                   rpc, currentChunk, rerr, closed, finalErr, planned, writes,
                   recorded>>

\* ---- downloadFileInParallel, main goroutine (restore.go 256-356) ----------
\* lines 262-283: the channels and the jobs; waitGroup.Add(1) per job
Plan ==
    /\ mainpc = "plan"
    /\ LET n == NumberOfChunks(totalBytes, downloadChunkSize)
           q == PlanJobs(totalBytes, downloadChunkSize)
       IN /\ jobs' = q
          /\ planned' = q
          /\ waitGroup' = Len(q)
          /\ bufferPointers' = [i \in 0..(n - 1) |-> NoBuf]
          /\ closed' = [i \in 0..(n - 1) |-> FALSE]
          /\ counts' = [i \in 0..(n - 1) |-> NoCounts]
    /\ path' = "parallel"
    /\ mainpc' = "start"
    /\ UNCHANGED downloadOthers
    /\ UNCHANGED <<totalBytes, downloadChunkSize, downloadConcurrency, ret, file,
                   downloadBuffers, numberOfWorkers, bufLen, bufData, wpc, wjob,
                   wbuf, werr, ri, rpc, currentChunk, rerr, finalErr, failures,
                   writes, failed, recorded>>

NumberOfWorkersUncapped(concurrency, n) == concurrency
NumberOfWorkers(concurrency, n) == IF n < concurrency THEN n ELSE concurrency

\* lines 290-294: one buffer made and sent per slot of the channel
InitialPoolShared(nw) == [k \in 1..nw |-> 1]
InitialPool(nw) == [k \in 1..nw |-> k]

\* lines 285-352: the pool, the workers and the reassembler are started
Start ==
    /\ mainpc = "start"
    /\ LET n == NumberOfChunks(totalBytes, downloadChunkSize)
           nw == NumberOfWorkers(downloadConcurrency, n)
       IN /\ numberOfWorkers' = nw
          /\ downloadBuffers' = InitialPool(nw)
          /\ bufLen' = [b \in 1..nw |-> downloadChunkSize]
          /\ bufData' = [b \in 1..nw |-> [p \in 1..downloadChunkSize |-> ZeroByte]]
          /\ wpc' = [w \in Workers |-> IF w <= nw THEN "idle" ELSE "unstarted"]
          /\ rpc' = IF n > 0 THEN "wait" ELSE "exit"
    /\ ri' = 0
    /\ mainpc' = "wait"
    /\ UNCHANGED <<counts, downloadOthers>>
    /\ UNCHANGED <<totalBytes, downloadChunkSize, downloadConcurrency, path, ret,
                   file, jobs, waitGroup, bufferPointers, wjob, wbuf, werr,
                   currentChunk, rerr, closed, finalErr, failures, planned,
                   writes, failed, recorded>>

\* lines 354-355: waitGroup.Wait() returns at zero
Return ==
    /\ mainpc = "wait"
    /\ waitGroup = 0
    /\ ret' = Returned(totalBytes, 0, finalErr)
    /\ mainpc' = "returned"
    /\ UNCHANGED <<counts, downloadOthers>>
    /\ UNCHANGED <<totalBytes, downloadChunkSize, downloadConcurrency, path, file,
                   jobs, waitGroup, downloadBuffers, numberOfWorkers,
                   bufferPointers, bufLen, bufData, wpc, wjob, wbuf, werr, ri,
                   rpc, currentChunk, rerr, closed, finalErr, failures, planned,
                   writes, failed, recorded>>


\* ---- download workers (restore.go 303-332) --------------------------------
ChunkLen(j) == j.endByte - j.startByte + 1

\* the content of a buffer after the first k bytes of chunk j were written
\* into it from offset 0 (aws.WriteAtBuffer over the buffer's array)
DownloadInto(old, j, k) ==
    [p \in 1..Len(old) |-> IF p <= k THEN j.startByte + p - 1 ELSE old[p]]

\* the content of a buffer after a request failed that might have written
\* up to k bytes into it: each of them is the old byte or the chunk's byte
DownloadFailedInto(old, k) ==
    [p \in 1..Len(old) |-> IF p <= k THEN IndeterminateByte ELSE old[p]]

\* what a receive leaves in the jobs channel
DequeuePeek(q) == q
Dequeue(q) == Tail(q)

\* line 305: for j := range jobs (blocks for ever on the empty, open channel)
PullJob(w) ==
    /\ wpc[w] = "idle"
    /\ jobs # <<>>
    /\ wjob' = [wjob EXCEPT ![w] = Head(jobs)]
    /\ jobs' = Dequeue(jobs)
    /\ counts' = [counts EXCEPT ![Head(jobs).chunkIndex].pulled = @ + 1]
    /\ wpc' = [wpc EXCEPT ![w] = "acquire"]
    /\ werr' = [werr EXCEPT ![w] = NilErr]
    /\ UNCHANGED downloadOthers
    /\ UNCHANGED <<totalBytes, downloadChunkSize, downloadConcurrency, mainpc,
                   path, ret, file, waitGroup, downloadBuffers, numberOfWorkers,
                   bufferPointers, bufLen, bufData, wbuf, ri, rpc,
                   currentChunk, rerr, closed, finalErr, failures, planned,
                   writes, failed, recorded>>

\* line 308: the chunk is not one full downloadChunkSize long
NeverOwnBuffer(j, size) == FALSE
NeedsOwnBuffer(j, size) == ChunkLen(j) # size

\* lines 306-312: take a buffer from the pool; a chunk that is not
\* downloadChunkSize long gets a buffer of its own length instead (the
\* pool's buffer is dropped); publish the buffer in bufferPointers
AcquireBuffer(w) ==
    /\ wpc[w] = "acquire"
    /\ downloadBuffers # <<>>
    /\ LET j == wjob[w]
           fresh == numberOfWorkers + 1
           b == IF NeedsOwnBuffer(j, downloadChunkSize) THEN fresh ELSE Head(downloadBuffers)
       IN /\ wbuf' = [wbuf EXCEPT ![w] = b]
          /\ bufferPointers' = [bufferPointers EXCEPT ![j.chunkIndex] = b]
          /\ IF b = fresh
             THEN /\ bufLen' = (fresh :> ChunkLen(j)) @@ bufLen
                  /\ bufData' = (fresh :> [p \in 1..ChunkLen(j) |-> ZeroByte]) @@ bufData
             ELSE UNCHANGED <<bufLen, bufData>>
    /\ downloadBuffers' = Tail(downloadBuffers)
    /\ wpc' = [wpc EXCEPT ![w] = "request"]
    /\ UNCHANGED <<counts, downloadOthers>>
    /\ UNCHANGED <<totalBytes, downloadChunkSize, downloadConcurrency, mainpc,
                   path, ret, file, jobs, waitGroup, numberOfWorkers, wjob, werr,
                   ri, rpc, currentChunk, rerr, closed, finalErr, failures,
                   planned, writes, failed, recorded>>

\* lines 316-322: the ranged request returns.  On success the chunk's bytes
\* are in the buffer; on failure any part of them may be.
Download(w) ==
    /\ wpc[w] = "request"
    /\ counts' = [counts EXCEPT ![wjob[w].chunkIndex].requested = @ + 1]
    /\ LET j == wjob[w]
           b == wbuf[w]
           room == Min(ChunkLen(j), bufLen[b])
       IN \/ /\ bufData' = [bufData EXCEPT ![b] = DownloadInto(@, j, room)]
             /\ werr' = [werr EXCEPT ![w] = NilErr]
             /\ wpc' = [wpc EXCEPT ![w] = "signal"]
             /\ UNCHANGED <<failures, failed>>
          \/ /\ failures < MaxFailures
             /\ failures' = failures + 1
             /\ bufData' = [bufData EXCEPT ![b] = DownloadFailedInto(@, room)]
             /\ werr' = [werr EXCEPT ![w] = RequestErr(j.chunkIndex)]
             /\ failed' = failed \cup {RequestErr(j.chunkIndex)}
             /\ wpc' = [wpc EXCEPT ![w] = "storeTab"]
    /\ UNCHANGED downloadOthers
    /\ UNCHANGED <<totalBytes, downloadChunkSize, downloadConcurrency, mainpc,
                   path, ret, file, jobs, waitGroup, downloadBuffers,
                   numberOfWorkers, bufferPointers, bufLen, wjob, wbuf, ri, rpc,
                   currentChunk, rerr, closed, finalErr, planned, writes,
                   recorded>>

\* one word of finalErr = err
KeepWord(old, new) == old
StoreWord(old, new) == new

\* where a worker goes on after finalErr = err (line 325 falls through to 329)
AfterStoreReturn == "stopped"
AfterStore == "signal"

\* lines 323-325, first word of the store
WorkerStoreTab(w) ==
    /\ wpc[w] = "storeTab"
    /\ finalErr' = [finalErr EXCEPT !.tab = StoreWord(@, werr[w].tab)]
    /\ recorded' = IF recorded = NilErr THEN werr[w] ELSE recorded
    /\ wpc' = [wpc EXCEPT ![w] = "storeData"]
    /\ UNCHANGED <<counts, downloadOthers>>
    /\ UNCHANGED <<totalBytes, downloadChunkSize, downloadConcurrency, mainpc,
                   path, ret, file, jobs, waitGroup, downloadBuffers,
                   numberOfWorkers, bufferPointers, bufLen, bufData, wjob, wbuf,
                   werr, ri, rpc, currentChunk, rerr, closed, failures, planned,
                   writes, failed>>

\* lines 323-325, second word of the store
WorkerStoreData(w) ==
    /\ wpc[w] = "storeData"
    /\ finalErr' = [finalErr EXCEPT !.data = StoreWord(@, werr[w].data)]
    /\ wpc' = [wpc EXCEPT ![w] = AfterStore]
    /\ UNCHANGED <<counts, downloadOthers>>
    /\ UNCHANGED <<totalBytes, downloadChunkSize, downloadConcurrency, mainpc,
                   path, ret, file, jobs, waitGroup, downloadBuffers,
                   numberOfWorkers, bufferPointers, bufLen, bufData, wjob, wbuf,
                   werr, ri, rpc, currentChunk, rerr, closed, failures, planned,
                   writes, failed, recorded>>

\* the worker sends on copyChannel[chunkIndex], the reassembler receives
\* from copyChannel[i]: they meet when it is the same channel
SharedChannel(i, chunkIndex) == TRUE
SameChannel(i, chunkIndex) == i = chunkIndex

\* line 329 with line 337: the unbuffered send and its receive
Signal(w) ==
    /\ wpc[w] = "signal"
    /\ rpc = "wait"
    /\ SameChannel(ri, wjob[w].chunkIndex)
    /\ ~closed[wjob[w].chunkIndex]
    /\ currentChunk' = wjob[w].chunkIndex
    /\ counts' = [counts EXCEPT ![wjob[w].chunkIndex].sent = @ + 1, ![ri].received = @ + 1]
    /\ rpc' = "write"
    /\ wpc' = [wpc EXCEPT ![w] = "idle"]
    /\ wjob' = [wjob EXCEPT ![w] = NoJob]
    /\ wbuf' = [wbuf EXCEPT ![w] = NoBuf]
    /\ UNCHANGED downloadOthers
    /\ UNCHANGED <<totalBytes, downloadChunkSize, downloadConcurrency, mainpc,
                   path, ret, file, jobs, waitGroup, downloadBuffers,
                   numberOfWorkers, bufferPointers, bufLen, bufData, werr, ri,
                   rerr, closed, finalErr, failures, planned, writes, failed,
                   recorded>>

\* ---- the reassembler (restore.go 335-352) ---------------------------------
\* line 339: file.Write(*bufferPointers[currentChunk]); a failing write may
\* have written any proper prefix of the buffer
Write ==
    /\ rpc = "write"
    /\ writes' = Append(writes, currentChunk)
    /\ LET data == bufData[bufferPointers[currentChunk]]
       IN \/ /\ file' = file \o data
             /\ rerr' = NilErr
             /\ rpc' = "release"
             /\ UNCHANGED <<failures, failed>>
          \/ /\ failures < MaxFailures
             /\ failures' = failures + 1
             /\ \E n \in 0..(Len(data) - 1) : file' = file \o Prefix(data, n)
             /\ rerr' = WriteErr(currentChunk)
             /\ failed' = failed \cup {WriteErr(currentChunk)}
             /\ rpc' = "storeTab"
    /\ UNCHANGED <<counts, downloadOthers>>
    /\ UNCHANGED <<totalBytes, downloadChunkSize, downloadConcurrency, mainpc,
                   path, ret, jobs, waitGroup, downloadBuffers, numberOfWorkers,
                   bufferPointers, bufLen, bufData, wpc, wjob, wbuf, werr, ri,
                   currentChunk, closed, finalErr, planned, recorded>>

\* where the reassembler goes on after finalErr = err (line 342 falls
\* through to 347)
AfterWriteErrReturn == "exit"
AfterWriteErr == "release"

\* lines 340-342, first word of the store
ReassemblerStoreTab ==
    /\ rpc = "storeTab"
    /\ finalErr' = [finalErr EXCEPT !.tab = StoreWord(@, rerr.tab)]
    /\ recorded' = IF recorded = NilErr THEN rerr ELSE recorded
    /\ rpc' = "storeData"
    /\ UNCHANGED <<counts, downloadOthers>>
    /\ UNCHANGED <<totalBytes, downloadChunkSize, downloadConcurrency, mainpc,
                   path, ret, file, jobs, waitGroup, downloadBuffers,
                   numberOfWorkers, bufferPointers, bufLen, bufData, wpc, wjob,
                   wbuf, werr, ri, currentChunk, rerr, closed, failures, planned,
                   writes, failed>>

\* lines 340-342, second word of the store
ReassemblerStoreData ==
    /\ rpc = "storeData"
    /\ finalErr' = [finalErr EXCEPT !.data = StoreWord(@, rerr.data)]
    /\ rpc' = AfterWriteErr
    /\ UNCHANGED <<counts, downloadOthers>>
    /\ UNCHANGED <<totalBytes, downloadChunkSize, downloadConcurrency, mainpc,
                   path, ret, file, jobs, waitGroup, downloadBuffers,
                   numberOfWorkers, bufferPointers, bufLen, bufData, wpc, wjob,
                   wbuf, werr, ri, currentChunk, rerr, closed, failures, planned,
                   writes, failed, recorded>>

\* line 347: downloadBuffers <- *bufferPointers[currentChunk]
DropBuffer(pool, b) == pool
ReturnToPool(pool, b) == Append(pool, b)

\* lines 347-348: the buffer goes back to the pool (the send blocks on a full
\* channel) and the chunk's pointer is cleared
Release ==
    /\ rpc = "release"
    /\ Len(downloadBuffers) < numberOfWorkers
    /\ downloadBuffers' = ReturnToPool(downloadBuffers, bufferPointers[currentChunk])
    /\ bufferPointers' = [bufferPointers EXCEPT ![currentChunk] = NoBuf]
    /\ rpc' = "done"
    /\ UNCHANGED <<counts, downloadOthers>>
    /\ UNCHANGED <<totalBytes, downloadChunkSize, downloadConcurrency, mainpc,
                   path, ret, file, jobs, waitGroup, numberOfWorkers, bufLen,
                   bufData, wpc, wjob, wbuf, werr, ri, currentChunk, rerr,
                   closed, finalErr, failures, planned, writes, failed, recorded>>

\* lines 349-350 and the loop header 336: waitGroup.Done(),
\* close(copyChannel[i]), next i
Done ==
    /\ rpc = "done"
    /\ waitGroup' = waitGroup - 1
    /\ closed' = [closed EXCEPT ![ri] = TRUE]
    /\ ri' = ri + 1
    /\ rpc' = IF ri + 1 < NumberOfChunks(totalBytes, downloadChunkSize) THEN "wait" ELSE "exit"
    /\ rerr' = NilErr
    /\ currentChunk' = NoChunk
    /\ UNCHANGED <<counts, downloadOthers>>
    /\ UNCHANGED <<totalBytes, downloadChunkSize, downloadConcurrency, mainpc,
                   path, ret, file, jobs, downloadBuffers, numberOfWorkers,
                   bufferPointers, bufLen, bufData, wpc, wjob, wbuf, werr,
                   finalErr, failures, planned, writes, failed, recorded>>

\* ---- specifications -------------------------------------------------------
Worker(w) ==
    \/ PullJob(w)
    \/ AcquireBuffer(w)
    \/ Download(w)
    \/ WorkerStoreTab(w)
    \/ WorkerStoreData(w)
    \/ Signal(w)

Reassembler ==
    \/ Write
    \/ ReassemblerStoreTab
    \/ ReassemblerStoreData
    \/ Release
    \/ Done

Main ==
    \/ Probe
    \/ ProbeFail
    \/ SingleDownload
    \/ SingleWrite
    \/ Plan
    \/ Start
    \/ Return

Next ==
    \/ Main
    \/ Reassembler
    \/ \E w \in Workers : Worker(w)

Spec == Init /\ [][Next]_vars

\* every goroutine that can take a step eventually takes one, and every
\* request and every write eventually returns
FairSpec ==
    /\ Spec
    /\ WF_vars(Main)
    /\ WF_vars(Reassembler)
    /\ \A w \in Workers : WF_vars(Worker(w))

\* the planning loop on its own, for every input
NextPlan == Plan

SpecPlan == InitPlan /\ [][NextPlan]_vars


\* ---- properties -----------------------------------------------------------
ParallelReturned == path = "parallel" /\ mainpc = "returned"
CeilDiv(a, b) == IF a % b = 0 THEN a \div b ELSE (a \div b) + 1
RECURSIVE SumLen(_)
SumLen(q) == IF q = <<>> THEN 0 ELSE ChunkLen(Head(q)) + SumLen(Tail(q))

\* C1: the reassembler hands the chunks to file.Write in the order 0, 1, 2, ...
\* whatever the order in which the workers finish, and a parallel download
\* in which no request and no write failed leaves exactly the object's bytes,
\* in their order, in the destination.
C1_AscendingOrder ==
    /\ \A k \in 1..Len(writes) : writes[k] = k - 1
    /\ (ParallelReturned /\ failed = {}) => file = ObjectBytes(0, totalBytes - 1)

\* a download that returned after a later chunk had finished downloading
\* while an earlier one was still being requested
C1_Witness ==
    /\ ParallelReturned
    /\ failed = {}
    /\ Len(file) >= 3
    /\ downloadConcurrency >= 2

\* C2: the planned chunks partition [0, totalBytes): the first starts at 0,
\* each starts one byte after the end of the one before it, none is empty or
\* overlaps another, and their lengths add up to totalBytes.
C2_Partition ==
    mainpc # "probe" /\ mainpc # "plan" /\ path = "parallel" =>
        /\ planned # <<>> => planned[1].startByte = 0
        /\ \A k \in 2..Len(planned) : planned[k].startByte = planned[k - 1].endByte + 1
        /\ \A k \in 1..Len(planned) : planned[k].startByte <= planned[k].endByte
        /\ \A k, m \in 1..Len(planned) :
              k < m => planned[k].endByte < planned[m].startByte
        /\ SumLen(planned) = totalBytes

\* a plan of three chunks whose last one is short
C2_Witness ==
    /\ mainpc = "start"
    /\ Len(planned) = 3
    /\ ChunkLen(planned[3]) < downloadChunkSize

\* C3: the loop enqueues ceil(totalBytes / chunkSize) jobs, numbered from 0,
\* all of chunkSize bytes but the last, which ends at totalBytes - 1; 12 MiB
\* in chunks of 5 MiB gives [0,5242879], [5242880,10485759],
\* [10485760,12582911].
C3_ChunkCount ==
    mainpc # "probe" /\ mainpc # "plan" /\ path = "parallel" =>
        /\ Len(planned) = CeilDiv(totalBytes, downloadChunkSize)
        /\ \A k \in 1..Len(planned) : planned[k].chunkIndex = k - 1
        /\ \A k \in 1..(Len(planned) - 1) : ChunkLen(planned[k]) = downloadChunkSize
        /\ planned # <<>> => planned[Len(planned)].endByte = totalBytes - 1
        /\ (totalBytes = ExampleTotalBytes /\ downloadChunkSize = ExampleChunkSize) =>
              planned = << [chunkIndex |-> 0, startByte |-> 0, endByte |-> 5242879],
                           [chunkIndex |-> 1, startByte |-> 5242880, endByte |-> 10485759],
                           [chunkIndex |-> 2, startByte |-> 10485760, endByte |-> 12582911] >>

\* the plan of a size that is an exact multiple of the chunk size
C3_Witness ==
    /\ mainpc = "start"
    /\ totalBytes = 3 * downloadChunkSize
    /\ Len(planned) = 3

\* buffers taken by a worker and not yet sent back by the reassembler
ReassemblerHolds == rpc \in {"write", "storeTab", "storeData", "release"}
CheckedOut ==
    Cardinality({w \in Workers : wbuf[w] # NoBuf}) + (IF ReassemblerHolds THEN 1 ELSE 0)
Started == path = "parallel" /\ mainpc \in {"wait", "returned"}
MinWorkers ==
    Min(downloadConcurrency, NumberOfChunks(totalBytes, downloadChunkSize))

\* C4: during a parallel download at most min(concurrency, numberOfChunks)
\* buffers are checked out, that many workers were started, and the buffers
\* in the pool and the buffers checked out together number that many.
C4_PoolBound ==
    Started =>
        /\ CheckedOut <= MinWorkers
        /\ Cardinality({w \in Workers : wpc[w] # "unstarted"}) = MinWorkers
        /\ Len(downloadBuffers) + CheckedOut = MinWorkers

\* fewer chunks than the configured concurrency, and every buffer checked out
C4_Witness ==
    /\ Started
    /\ NumberOfChunks(totalBytes, downloadChunkSize) < downloadConcurrency
    /\ CheckedOut = MinWorkers
    /\ downloadBuffers = <<>>

\* C5: no buffer is held by two workers, and a buffer held by a worker is
\* neither in the pool nor the one the reassembler is writing or about to
\* send back.
C5_ExclusiveBuffer ==
    /\ \A v, w \in Workers : (v # w /\ wbuf[v] # NoBuf) => wbuf[v] # wbuf[w]
    /\ \A w \in Workers :
          wbuf[w] # NoBuf =>
              /\ wbuf[w] \notin Range(downloadBuffers)
              /\ ReassemblerHolds => wbuf[w] # bufferPointers[currentChunk]
    /\ ReassemblerHolds => bufferPointers[currentChunk] \notin Range(downloadBuffers)

\* a worker downloads into a buffer that an earlier chunk went through
C5_Witness ==
    /\ writes # <<>>
    /\ \E w \in Workers :
          /\ wpc[w] = "request"
          /\ \E p \in 1..Len(bufData[wbuf[w]]) : bufData[wbuf[w]][p] # ZeroByte

\* C6: downloadFileInParallel returns a non-nil error exactly when a ranged
\* request or a destination write failed.
C6_ErrorNotLost ==
    ParallelReturned => (ret.err.tab # "nil" <=> failed # {})

\* a return after a request failure and a later successful chunk
C6_Witness ==
    /\ ParallelReturned
    /\ failed = {RequestErr(0)}
    /\ ret.err = RequestErr(0)


\* C7 as stated: the error returned is the failure that was stored first
C7_FirstFailureWins ==
    (ParallelReturned /\ recorded # NilErr) => ret.err = recorded

\* the reassembler has consumed chunk c: received its signal, written its
\* buffer and closed its channel
Consumed(c) == c \in DOMAIN closed /\ closed[c]

\* C8: when the request of one chunk fails and nothing else does, the
\* reassembler still gets that chunk's completion signal, the download
\* returns, and it returns that chunk's error.
C8_FailedChunkTerminates ==
    /\ (\E c \in DOMAIN closed : RequestErr(c) \in failed) ~> ParallelReturned
    /\ [](ParallelReturned =>
             \A c \in DOMAIN closed :
                /\ Consumed(c)
                /\ failed = {RequestErr(c)} => ret.err = RequestErr(c))

\* the request of chunk 1 failed, chunks 0 and 2 succeeded, and the download
\* returned chunk 1's error
C8_Witness ==
    /\ ParallelReturned
    /\ Len(planned) = 3
    /\ failed = {RequestErr(1)}
    /\ ret.err = RequestErr(1)


C10_WriteFailureNoDeadlock ==
    /\ (rerr # NilErr /\ ReassemblerHolds) ~>
           (rerr # NilErr /\ rpc = "done" /\ downloadBuffers # <<>>)
    /\ (\E c \in DOMAIN closed : WriteErr(c) \in failed) ~>
           (ParallelReturned /\ ret.err.tab # "nil")
    /\ [](ParallelReturned =>
             /\ \A w \in Workers : wpc[w] \in {"idle", "unstarted"}
             /\ \A c \in DOMAIN closed : failed = {WriteErr(c)} => ret.err = WriteErr(c))

\* with a single worker and a single buffer the write of chunk 0 failed, the
\* later chunks still went through, and the download returned the write's
\* error
C10_Witness ==
    /\ ParallelReturned
    /\ downloadConcurrency = 1
    /\ failed = {WriteErr(0)}
    /\ ret.err = WriteErr(0)

\* C7: two failures were stored and the one returned is not the first
C7_Witness ==
    /\ ParallelReturned
    /\ recorded # NilErr
    /\ ret.err # recorded

\* ---- C11 ------------------------------------------------------------------
\* a worker parked at "for j := range jobs" with nothing left to receive
BlockedOnJobs(w) == wpc[w] = "idle" /\ jobs = <<>>

\* C11: once the job queue is drained and the download is over, no worker
\* goroutine is left blocked waiting for a job: every worker has terminated.
\* (jobs is never closed, so the final state of a parallel download, in which
\* no goroutine has a step left, still has its workers waiting on it.)
C11_WorkersTerminate ==
    ParallelReturned => \A w \in Workers : ~BlockedOnJobs(w)

\* ---- C12 ------------------------------------------------------------------
\* worker w has downloaded a chunk later than the one the reassembler waits for
AheadOfReassembler(w) ==
    wpc[w] = "signal" /\ rpc = "wait" /\ wjob[w].chunkIndex > ri

\* C12 as claimed: while the reassembler waits for chunk i, a worker that has
\* finished a later chunk j > i can publish its completion signal (and go on
\* to its next job) before chunks i..j-1 are consumed
C12_WorkerNeverBlocked ==
    \A w \in Workers : AheadOfReassembler(w) => ENABLED Signal(w)

\* C12 as the code has it: a worker gets past its completion send only in
\* the step in which the reassembler, having consumed every earlier chunk,
\* receives from that very chunk's channel; until then it stays on the send
C12_WorkerWaitsForTurn ==
    [][\A w \in Workers :
          (wpc[w] = "signal" /\ wpc'[w] # "signal") =>
              /\ rpc = "wait" /\ ri = wjob[w].chunkIndex
              /\ \A c \in 0..(wjob[w].chunkIndex - 1) : Consumed(c)
              /\ rpc' = "write" /\ currentChunk' = wjob[w].chunkIndex]_vars

\* a worker holds the finished chunk 1 while the reassembler waits for chunk 0
C12_Witness ==
    \E w \in Workers :
        /\ AheadOfReassembler(w)
        /\ ~ENABLED Signal(w)
        /\ \E v \in Workers : wpc[v] = "request" /\ wjob[v].chunkIndex = ri

\* ---- C13 ------------------------------------------------------------------
\* how often chunk c was handed to file.Write
Written(c) == Cardinality({k \in 1..Len(writes) : writes[k] = c})
\* the workers that hold chunk c as their current job
Holders(c) == {w \in Workers : wjob[w].chunkIndex = c}

\* C13: every planned chunk is pulled by exactly one worker, requested once,
\* signalled once (one send, one receive) and written once: never more than
\* once while the download runs, exactly once when it has returned; and a
\* worker never reaches its completion send with the channel already closed.
C13_ExactlyOnce ==
    /\ \A c \in DOMAIN counts :
          /\ counts[c].pulled <= 1
          /\ Cardinality(Holders(c)) <= 1
          /\ counts[c].requested <= counts[c].pulled
          /\ counts[c].sent <= counts[c].requested
          /\ counts[c].received = counts[c].sent
          /\ Written(c) <= counts[c].received
          /\ Consumed(c) => Holders(c) = {} /\ Written(c) = 1
    /\ \A w \in Workers : wpc[w] = "signal" => ~closed[wjob[w].chunkIndex]
    /\ ParallelReturned =>
          /\ DOMAIN counts = {j.chunkIndex : j \in Range(planned)}
          /\ \A c \in DOMAIN counts :
                /\ counts[c] = [pulled |-> 1, requested |-> 1, sent |-> 1, received |-> 1]
                /\ Written(c) = 1

\* a download of three chunks by at least two workers has returned
C13_Witness ==
    /\ ParallelReturned
    /\ Len(planned) = 3
    /\ numberOfWorkers >= 2
    /\ \A c \in 0..2 : counts[c].pulled = 1 /\ counts[c].sent = 1 /\ Written(c) = 1

\* ---- C14 ------------------------------------------------------------------
\* nothing of the parallel machinery exists
NoParallelMachinery ==
    /\ planned = <<>> /\ jobs = <<>> /\ waitGroup = 0
    /\ numberOfWorkers = 0 /\ downloadBuffers = <<>> /\ bufLen = <<>>
    /\ \A w \in Workers : wpc[w] = "unstarted"
    /\ rpc = "unstarted"

\* C14: after a successful probe downloadFile is on the single-shot path
\* (one whole-object request; no job queue, workers or buffer pool) exactly
\* when totalBytes <= DownloadChunkSize and on the parallel path otherwise;
\* an object of 0 bytes goes the single-shot way and leaves the destination
\* empty.
C14_PathBySize ==
    /\ path = "none" => mainpc = "probe" \/ (mainpc = "returned" /\ ret.err = ProbeErr)
    /\ path = "single" <=> (mainpc # "probe" /\ ret.err # ProbeErr /\ totalBytes <= downloadChunkSize)
    /\ path = "parallel" <=> (mainpc # "probe" /\ ret.err # ProbeErr /\ totalBytes > downloadChunkSize)
    /\ path # "parallel" => NoParallelMachinery
    /\ path = "single" /\ mainpc = "returned" /\ ret.err = NilErr =>
          file = ObjectBytes(0, totalBytes - 1)
    /\ totalBytes = 0 => path # "parallel" /\ file = <<>>

\* the empty object was fetched in one request and nothing was written
C14_Witness ==
    /\ totalBytes = 0
    /\ path = "single"
    /\ mainpc = "returned"
    /\ ret = Returned(0, 0, NilErr)
    /\ file = <<>>

\* ---- C15 ------------------------------------------------------------------
NoWriteFailed == \A f \in failed : f.tab # "Write"
\* the buffers in the pool that are not downloadChunkSize long
ShortInPool == {k \in 1..Len(downloadBuffers) : bufLen[downloadBuffers[k]] # downloadChunkSize}

\* C15: the buffer a worker downloads a chunk into, and the buffer the
\* reassembler writes for it, is exactly endByte - startByte + 1 long: the
\* short last chunk gets a buffer of its own length, and once that short
\* buffer is back in the pool no chunk is left that could be given it; so a
\* download whose writes all succeed has written totalBytes bytes.
C15_BufferFitsChunk ==
    /\ \A b \in DOMAIN bufLen : Len(bufData[b]) = bufLen[b]
    /\ \A w \in Workers :
          wpc[w] \in {"request", "storeTab", "storeData", "signal"} =>
              /\ bufLen[wbuf[w]] = ChunkLen(wjob[w])
              /\ bufferPointers[wjob[w].chunkIndex] = wbuf[w]
    /\ ReassemblerHolds =>
          Len(bufData[bufferPointers[currentChunk]]) = ChunkLen(planned[currentChunk + 1])
    /\ ShortInPool # {} =>
          /\ jobs = <<>>
          /\ \A w \in Workers : wpc[w] \in {"idle", "unstarted"}
    /\ ParallelReturned /\ NoWriteFailed => Len(file) = totalBytes

\* a download with a short last chunk has returned; the short buffer is in
\* the pool
C15_Witness ==
    /\ ParallelReturned
    /\ totalBytes % downloadChunkSize # 0
    /\ ShortInPool # {}
    /\ Len(planned) = 3
    /\ Len(file) = totalBytes

\* ---- C16 ------------------------------------------------------------------
ReturnedOK == mainpc = "returned" /\ ret.returned /\ ret.err = NilErr

\* C16: when downloadFile returns without error, the byte count it returns
\* is the probed size of the object and is the number of bytes that were
\* written to the destination (which holds the object's bytes).
C16_CountOnSuccess ==
    ReturnedOK =>
        /\ ret.bytes = totalBytes
        /\ ret.bytes = Len(file)
        /\ file = ObjectBytes(0, totalBytes - 1)
        /\ failed = {}

\* a parallel download with a short last chunk has returned without error
C16_Witness ==
    /\ ReturnedOK
    /\ path = "parallel"
    /\ totalBytes % downloadChunkSize # 0
    /\ ret.bytes = totalBytes
    /\ Len(file) = totalBytes

\* ---- C17 ------------------------------------------------------------------
ReturnedErr == mainpc = "returned" /\ ret.returned /\ ret.err # NilErr

\* C17: when downloadFile returns an error, the byte count returned with it
\* is the number of bytes transferred to the destination so far (the partial
\* count), on the single-shot path and on the parallel path.
C17_PartialCount ==
    ReturnedErr => ret.bytes = Len(file)

\* ---- C18 ------------------------------------------------------------------
FailedRequest == \E c \in DOMAIN counts : RequestErr(c) \in failed
\* every planned chunk was requested and consumed by the reassembler
AllAttempted ==
    /\ Started
    /\ \A d \in DOMAIN counts : counts[d].requested = 1 /\ Consumed(d)

\* C18: once a parallel download has started, every planned chunk is
\* attempted; after the request of one chunk has failed, every other chunk,
\* queued or in flight, is still requested and consumed by the reassembler.
C18_AllChunksAttempted ==
    /\ Started ~> AllAttempted
    /\ FailedRequest ~> AllAttempted
    /\ [](ParallelReturned => AllAttempted)

\* the request of chunk 0 failed; chunks 1 and 2 were requested and consumed
\* all the same
C18_Witness ==
    /\ RequestErr(0) \in failed
    /\ Len(planned) = 3
    /\ AllAttempted
    /\ Written(1) = 1 /\ Written(2) = 1
    /\ rpc = "exit"

\* ---- the retry policy (s3plugin.go 178-215) --------------------------------
\* req.Error.Error() as the sequence of its parts
ErrorText(err) == <<err.code>> \o err.message
\* strings.Contains, for a phrase that is one of the parts
Contains(text, phrase) == \E k \in 1..Len(text) : text[k] = phrase

\* the answers of the SDK for a response status on its own
ThrottleStatusCodes == {429, 502, 503, 504}

\* line 199: client.DefaultRetryer.ShouldRetry of the SDK: never with
\* NumMaxRetries = 0; the decision of an earlier handler if there is one;
\* else whether the error is retryable or the request was throttled
DefaultShouldRetry(r, request) ==
    IF r.NumMaxRetries = 0 THEN FALSE
    ELSE IF request.Retryable # RetryableUnset THEN request.Retryable = "true"
    ELSE \/ request.Error.class \in {"retryable", "throttle"}
         \/ request.StatusCode \in ThrottleStatusCodes

\* lines 183-215
ShouldRetryNot404(r, request) ==
    IF r.NumMaxRetries = 0 THEN FALSE
    ELSE IF request.Error # NoError /\ Contains(ErrorText(request.Error), ConnectionResetByPeer) THEN TRUE
    ELSE DefaultShouldRetry(r, request)
ShouldRetryAny4xx(r, request) ==
    IF r.NumMaxRetries = 0 THEN FALSE
    ELSE IF request.Error # NoError /\ Contains(ErrorText(request.Error), ConnectionResetByPeer) THEN TRUE
    ELSE IF request.StatusCode >= 400 /\ request.StatusCode < 500 THEN TRUE
    ELSE DefaultShouldRetry(r, request)
ShouldRetryNoReset(r, request) ==
    IF r.NumMaxRetries = 0 THEN FALSE
    ELSE IF request.StatusCode = 404 THEN TRUE
    ELSE DefaultShouldRetry(r, request)
ShouldRetryCapped(r, request) ==
    IF r.NumMaxRetries = 0 \/ request.RetryCount >= r.NumMaxRetries THEN FALSE
    ELSE IF request.Error # NoError /\ Contains(ErrorText(request.Error), ConnectionResetByPeer) THEN TRUE
    ELSE IF request.StatusCode = 404 THEN TRUE
    ELSE DefaultShouldRetry(r, request)
ShouldRetryNoZeroCheck(r, request) ==
    IF request.Error # NoError /\ Contains(ErrorText(request.Error), ConnectionResetByPeer) THEN TRUE
    ELSE IF request.StatusCode = 404 THEN TRUE
    ELSE DefaultShouldRetry(r, request)
ShouldRetry(r, request) ==
    IF r.NumMaxRetries = 0 THEN FALSE
    ELSE IF request.Error # NoError /\ Contains(ErrorText(request.Error), ConnectionResetByPeer) THEN TRUE
    ELSE IF request.StatusCode = 404 THEN TRUE
    ELSE DefaultShouldRetry(r, request)

\* every retryer and every request; no download is going on
InitRetry ==
    /\ retryer \in {[NumMaxRetries |-> n] : n \in {0, TestMaxRetries, SessionMaxRetries}}
    /\ req \in {q \in Requests : q.Retryable # RetryableUnset => q.Error # NoError}
    /\ willRetry = FALSE
    /\ retrypc = "called"
    /\ DownloadIdle /\ DeleteIdle /\ ConfigIdle /\ CallIdle /\ DirIdle /\ RestoreIdle /\ UploadIdle

\* the SDK asks the retryer about the request
ShouldRetryCall ==
    /\ retrypc = "called"
    /\ willRetry' = ShouldRetry(retryer, req)
    /\ retrypc' = "returned"
    /\ UNCHANGED <<retryer, req, retryOthers>>

NextRetry == ShouldRetryCall

SpecRetry == InitRetry /\ [][NextRetry]_vars

\* ---- C19 ------------------------------------------------------------------
\* C19: a retryer with NumMaxRetries > 0 answers true for every request
\* whose response status is 404 and false for a request with status 200 and
\* no error.
C19_Retry404Not200 ==
    retrypc = "returned" /\ retryer.NumMaxRetries > 0 =>
        /\ req.StatusCode = 404 => willRetry
        /\ req.StatusCode = 200 /\ req.Error = NoError => ~willRetry

\* the two rows of the test table: NumMaxRetries 5, no error, 404 and 200
C19_Witness ==
    /\ retrypc = "returned"
    /\ retryer.NumMaxRetries = TestMaxRetries
    /\ req.Error = NoError
    /\ \/ req.StatusCode = 404 /\ willRetry
       \/ req.StatusCode = 200 /\ ~willRetry

\* ---- C20 ------------------------------------------------------------------
AtCap == req.RetryCount >= retryer.NumMaxRetries
ConnectionReset == req.Error # NoError /\ Contains(ErrorText(req.Error), ConnectionResetByPeer)

\* C20 as claimed: ShouldRetry answers false for every request whose attempt
\* count has reached NumMaxRetries, whatever the error, a 404 response and a
\* connection reset included
C20_FalseAtCap ==
    retrypc = "returned" /\ AtCap => ~willRetry

\* C20 as the code has it: ShouldRetry does not look at the attempt count.
\* Its answer is the one it gives for the same request at attempt 0, so with
\* NumMaxRetries > 0 a 404 response and a connection reset are answered true
\* also when the count has reached NumMaxRetries.
C20_CountNotConsulted ==
    retrypc = "returned" =>
        /\ willRetry = ShouldRetry(retryer, [req EXCEPT !.RetryCount = 0])
        /\ retryer.NumMaxRetries > 0 /\ AtCap /\ (req.StatusCode = 404 \/ ConnectionReset)
              => willRetry

\* the session's retryer is asked about a 404 at attempt 10
C20_Witness ==
    /\ retrypc = "returned"
    /\ retryer.NumMaxRetries = SessionMaxRetries
    /\ req.RetryCount = SessionMaxRetries
    /\ req.StatusCode = 404
    /\ willRetry

\* ---- C21 ------------------------------------------------------------------
\* C21: with NumMaxRetries > 0 a request whose error is a connection reset
\* by peer is answered true, whatever its response status is and whatever
\* the generic policy (DefaultRetryer.ShouldRetry) makes of it.
C21_ResetRetried ==
    retrypc = "returned" /\ retryer.NumMaxRetries > 0 /\ ConnectionReset =>
        /\ willRetry
        /\ willRetry = ShouldRetry(retryer, [req EXCEPT !.StatusCode = 200])
        /\ willRetry = ShouldRetry(retryer, [req EXCEPT !.Retryable = "false"])

\* a connection reset on a 403 response that an earlier handler marked as
\* not retryable, and that the generic policy would not retry, is retried
C21_Witness ==
    /\ retrypc = "returned"
    /\ retryer.NumMaxRetries > 0
    /\ ConnectionReset
    /\ req.StatusCode = 403
    /\ req.Retryable = "false"
    /\ ~DefaultShouldRetry(retryer, req)
    /\ willRetry

\* ---- C22 ------------------------------------------------------------------
\* a 4xx response other than 404 and 429 whose error is not a connection reset
Other4xx ==
    /\ req.StatusCode >= 400 /\ req.StatusCode < 500
    /\ req.StatusCode \notin {404, 429}
    /\ ~ConnectionReset

\* C22 as claimed: ShouldRetry answers false for every such request
C22_Other4xxNotRetried ==
    retrypc = "returned" /\ Other4xx => ~willRetry

\* C22 as the code has it: such a request gets the answer of the generic
\* policy.  That is false for an error the SDK holds to be final (bad
\* request, permission denied) or for no error, unless an earlier handler
\* marked the request retryable; it is true for an error the SDK holds to be
\* retryable or a throttling (a 400 RequestTimeout), unless an earlier
\* handler marked the request not retryable.
C22_Other4xxByDefaultPolicy ==
    retrypc = "returned" /\ retryer.NumMaxRetries > 0 /\ Other4xx =>
        /\ willRetry = DefaultShouldRetry(retryer, req)
        /\ req.Error.class \in {"terminal", "none"} /\ req.Retryable # "true" => ~willRetry
        /\ req.Error.class \in {"retryable", "throttle"} /\ req.Retryable # "false" => willRetry
        /\ req.Retryable = "true" => willRetry

\* permission denied is not retried, a 400 RequestTimeout is
C22_Witness ==
    /\ retrypc = "returned"
    /\ retryer.NumMaxRetries > 0
    /\ req.Retryable = RetryableUnset
    /\ \/ req.StatusCode = 403 /\ req.Error.code = "AccessDenied" /\ ~willRetry
       \/ req.StatusCode = 400 /\ req.Error.code = "RequestTimeout" /\ willRetry

\* ---- DeleteBackup (s3plugin.go 309-346) ------------------------------------
Digits == {"0", "1", "2", "3", "4", "5", "6", "7", "8", "9"}
\* characters that are not decimal digits
OtherChars == {"a", "-", " ", "\n"}
TimestampDigits == 14

\* the timestamps tried: n times the same digit, and such a text with one
\* character that is not a digit; the one of the test
Repeat(n, c) == [k \in 1..n |-> c]
Timestamps ==
    {Repeat(n, d) : n \in 0..MaxTimestampLen, d \in {"0", "2"}}
    \cup UNION {{[Repeat(n, "2") EXCEPT ![k] = c] : k \in 1..n, c \in OtherChars} : n \in 1..MaxTimestampLen}
    \cup {<<"b", "a", "d", "f", "o", "r", "m", "a", "t">>}

\* lines 343-346: the regular expression ^([0-9]{14})$ matches the text
IsValidTimestampPrefix(ts) ==
    /\ Len(ts) >= TimestampDigits
    /\ \A k \in 1..TimestampDigits : ts[k] \in Digits
IsValidTimestamp(ts) ==
    /\ Len(ts) = TimestampDigits
    /\ \A k \in 1..Len(ts) : ts[k] \in Digits

\* the errors of lines 312 and 316-318 (the texts tried hold no % for
\* fmt.Errorf to expand)
ErrNoTimestamp == <<"delete requires a <timestamp>">>
ErrTimestampFormat(ts) ==
    <<"delete requires a <timestamp> with format YYYYMMDDHHMMSS, but received: ">> \o ts
ErrConfig == <<"readConfigAndStartSession">>
ErrDelete == <<"BatchDelete">>

\* <folder>/backups/<date>/<timestamp>, line 329, below the folder
DeletePath(ts) == <<"backups", SubSeq(ts, 1, 8), ts>>

InitDelete ==
    /\ timestamp \in Timestamps
    /\ deletepc = "called"
    /\ deleteErr = <<>>
    /\ deleteSteps = <<>>
    /\ DownloadIdle /\ RetryIdle /\ ConfigIdle /\ CallIdle /\ DirIdle /\ RestoreIdle /\ UploadIdle

\* lines 310-319: the two tests of the timestamp
DeleteValidate ==
    /\ deletepc = "called"
    /\ IF timestamp = <<>>
       THEN deleteErr' = ErrNoTimestamp /\ deletepc' = "returned"
       ELSE IF ~IsValidTimestamp(timestamp)
            THEN deleteErr' = ErrTimestampFormat(timestamp) /\ deletepc' = "returned"
            ELSE deleteErr' = deleteErr /\ deletepc' = "config"
    /\ UNCHANGED <<timestamp, deleteSteps, deleteOthers>>

\* lines 325-328: the configuration is read and the session opened, or not
DeleteReadConfig ==
    /\ deletepc = "config"
    /\ \/ /\ deleteSteps' = deleteSteps \o <<[step |-> "readConfig"], [step |-> "session"]>>
          /\ deletepc' = "delete"
          /\ UNCHANGED deleteErr
       \/ /\ deleteSteps' = Append(deleteSteps, [step |-> "readConfig"])
          /\ deleteErr' = ErrConfig
          /\ deletepc' = "returned"
    /\ UNCHANGED <<timestamp, deleteOthers>>

\* lines 329-341: everything under the delete path is listed and deleted
DeleteObjects ==
    /\ deletepc = "delete"
    /\ deleteSteps' = deleteSteps \o <<[step |-> "list", prefix |-> DeletePath(timestamp)],
                                       [step |-> "delete", prefix |-> DeletePath(timestamp)]>>
    /\ deleteErr' \in {<<>>, ErrDelete}
    /\ deletepc' = "returned"
    /\ UNCHANGED <<timestamp, deleteOthers>>

NextDelete ==
    \/ DeleteValidate
    \/ DeleteReadConfig
    \/ DeleteObjects

SpecDelete == InitDelete /\ [][NextDelete]_vars

\* ---- C23 ------------------------------------------------------------------
FourteenDigits ==
    /\ Len(timestamp) = 14
    /\ \A k \in 1..Len(timestamp) : timestamp[k] \in {"0", "1", "2", "3", "4", "5", "6", "7", "8", "9"}

\* C23: DeleteBackup answers an empty timestamp with "delete requires a
\* <timestamp>" and a timestamp that is not exactly 14 decimal digits with
\* the format error, and in both cases it has read no configuration, opened
\* no session and issued no list or delete request.
C23_TimestampChecked ==
    /\ deletepc = "returned" /\ timestamp = <<>> =>
          deleteErr = <<"delete requires a <timestamp>">> /\ deleteSteps = <<>>
    /\ deletepc = "returned" /\ timestamp # <<>> /\ ~FourteenDigits =>
          /\ deleteErr = <<"delete requires a <timestamp> with format YYYYMMDDHHMMSS, but received: ">> \o timestamp
          /\ deleteSteps = <<>>
    /\ deletepc \notin {"called", "returned"} \/ deleteSteps # <<>> => FourteenDigits

\* fifteen digits are refused before anything is read or opened
C23_Witness ==
    /\ deletepc = "returned"
    /\ Len(timestamp) = 15
    /\ \A k \in 1..15 : timestamp[k] \in Digits
    /\ deleteErr = ErrTimestampFormat(timestamp)
    /\ deleteSteps = <<>>

\* ---- InitializeAndValidateConfig (s3plugin.go 100-175) ----------------------
DefaultConcurrency == 6
DefaultUploadChunkSize == Mebibyte * 500
DefaultDownloadChunkSize == Mebibyte * 500

\* the option texts are sequences of characters, so that parsing them is
\* something the model does
DigitValue ==
    [c \in Digits |->
        CASE c = "0" -> 0 [] c = "1" -> 1 [] c = "2" -> 2 [] c = "3" -> 3 [] c = "4" -> 4
          [] c = "5" -> 5 [] c = "6" -> 6 [] c = "7" -> 7 [] c = "8" -> 8 [] c = "9" -> 9]

RECURSIVE NumberOf(_, _)
NumberOf(s, acc) ==
    IF s = <<>> THEN acc ELSE NumberOf(Tail(s), 10 * acc + DigitValue[Head(s)])

AllDigits(s) == s # <<>> /\ \A k \in 1..Len(s) : s[k] \in Digits

\* strconv.Atoi: an optional sign and at least one decimal digit; 0 and an
\* error for anything else
Atoi(s) ==
    LET signed == s # <<>> /\ Head(s) \in {"+", "-"}
        body == IF signed THEN Tail(s) ELSE s
    IN IF AllDigits(body)
       THEN [ok |-> TRUE, value |-> IF Head(s) = "-" THEN 0 - NumberOf(body, 0) ELSE NumberOf(body, 0)]
       ELSE [ok |-> FALSE, value |-> 0]

\* the number of leading decimal digits
RECURSIVE LeadingDigits(_)
LeadingDigits(s) ==
    IF s = <<>> \/ Head(s) \notin Digits THEN 0 ELSE 1 + LeadingDigits(Tail(s))

ToUpper(s) ==
    [k \in 1..Len(s) |->
        CASE s[k] = "b" -> "B" [] s[k] = "k" -> "K" [] s[k] = "m" -> "M" [] s[k] = "g" -> "G"
          [] OTHER -> s[k]]

\* the units of bytesize.Parse that fit the model's integers
UnitMap ==
    (<<"B">> :> 1) @@ (<<"K", "B">> :> 1024) @@ (<<"M", "B">> :> Mebibyte) @@ (<<"G", "B">> :> 1024 * Mebibyte)

\* bytesize.Parse for texts without blanks and without a decimal point: the
\* text is cut at its first character that is not a digit; the rest must be
\* a unit, whatever its case, and the part before it a number
BytesizeParse(s) ==
    LET n == LeadingDigits(s)
        number == SubSeq(s, 1, n)
        unit == ToUpper(SubSeq(s, n + 1, Len(s)))
    IN IF n = Len(s) \/ unit \notin DOMAIN UnitMap \/ number = <<>>
       THEN [ok |-> FALSE, value |-> 0]
       ELSE [ok |-> TRUE, value |-> NumberOf(number, 0) * UnitMap[unit]]

\* lines 106-111: a default takes the place of an empty text
DefaultIfEmpty(text, default) == IF text = "" THEN default ELSE text

\* lines 112-115 with 140-169: the default stays unless the option is given
KeepDefault(option, default, parsed) == default
Overwrite(option, default, parsed) == IF option # <<>> THEN parsed ELSE default

\* lines 127-133: one of the two keys is there without the other
MissingKeyOneWay(id, secret) == id = "" /\ secret # ""
MissingKey(id, secret) ==
    IF id = "" THEN secret # "" ELSE secret = ""

Check(cond, message) == IF cond THEN <<message>> ELSE <<>>

\* the fields of the configuration after the call
Initialized(c) ==
    [c EXCEPT
        !.Region = DefaultIfEmpty(@, "unused"),
        !.Encryption = DefaultIfEmpty(@, "on"),
        !.UploadChunkSize =
            Overwrite(c.BackupMultipartChunksize, DefaultUploadChunkSize,
                      BytesizeParse(c.BackupMultipartChunksize).value),
        !.UploadConcurrency =
            Overwrite(c.BackupMaxConcurrentRequests, DefaultConcurrency,
                      Atoi(c.BackupMaxConcurrentRequests).value),
        !.DownloadChunkSize =
            Overwrite(c.RestoreMultipartChunksize, DefaultDownloadChunkSize,
                      BytesizeParse(c.RestoreMultipartChunksize).value),
        !.DownloadConcurrency =
            Overwrite(c.RestoreMaxConcurrentRequests, DefaultConcurrency,
                      Atoi(c.RestoreMaxConcurrentRequests).value)]

\* errTxt: the messages of lines 118-169, in their order and without the
\* parser's own text, for the configuration c after its defaults were set
ErrTxt(c) ==
    Check(c.ExecutablePath = "", "executable_path must exist and cannot be empty in plugin configuration file")
    \o Check(c.Bucket = "", "bucket must exist and cannot be empty in plugin configuration file")
    \o Check(c.Folder = "", "folder must exist and cannot be empty in plugin configuration file")
    \o Check(MissingKey(c.AwsAccessKeyId, c.AwsSecretAccessKey),
             IF c.AwsAccessKeyId = ""
             THEN "aws_access_key_id must exist in plugin configuration file if aws_secret_access_key does"
             ELSE "aws_secret_access_key must exist in plugin configuration file if aws_access_key_id does")
    \o Check(c.Region = "unused" /\ c.Endpoint = "", "region or endpoint must exist in plugin configuration file")
    \o Check(c.Encryption # "on" /\ c.Encryption # "off", "Invalid encryption configuration. Valid choices are on or off.")
    \o Check(c.BackupMultipartChunksize # <<>> /\ ~BytesizeParse(c.BackupMultipartChunksize).ok,
             "Invalid backup_multipart_chunksize.")
    \o Check(c.BackupMaxConcurrentRequests # <<>> /\ ~Atoi(c.BackupMaxConcurrentRequests).ok,
             "Invalid backup_max_concurrent_requests.")
    \o Check(c.RestoreMultipartChunksize # <<>> /\ ~BytesizeParse(c.RestoreMultipartChunksize).ok,
             "Invalid restore_multipart_chunksize.")
    \o Check(c.RestoreMaxConcurrentRequests # <<>> /\ ~Atoi(c.RestoreMaxConcurrentRequests).ok,
             "Invalid restore_max_concurrent_requests.")

\* the configurations tried
Configs ==
    [ ExecutablePath : {"", "/bin/gpbackup_s3_plugin"},
      AwsAccessKeyId : {"", "key_id"},
      AwsSecretAccessKey : {"", "secret"},
      Bucket : {"", "bucket_name"},
      Folder : {"", "folder_name"},
      Region : {"", "unused", "region_name"},
      Endpoint : {"", "endpoint_name"},
      Encryption : {"", "on", "off", "ON", "invalid_value"},
      BackupMultipartChunksize : {<<>>, <<"1", "0", "M", "B">>, <<"1", "0">>},
      BackupMaxConcurrentRequests : {<<>>, <<"1", "0">>, <<"1", "a">>},
      RestoreMultipartChunksize : {<<>>, <<"7", "m", "b">>, <<"0", "M", "B">>, <<"-", "1", "M", "B">>},
      RestoreMaxConcurrentRequests : {<<>>, <<"3">>, <<"0">>, <<"-", "1">>},
      UploadChunkSize : {0},
      UploadConcurrency : {0},
      DownloadChunkSize : {0},
      DownloadConcurrency : {0} ]

InitConfig ==
    /\ configGiven \in Configs
    /\ config = configGiven
    /\ configErr = <<>>
    /\ configpc = "called"
    /\ DownloadIdle /\ RetryIdle /\ DeleteIdle /\ CallIdle /\ DirIdle /\ RestoreIdle /\ UploadIdle

InitializeAndValidateConfig ==
    /\ configpc = "called"
    /\ config' = Initialized(config)
    /\ configErr' = ErrTxt(Initialized(config))
    /\ configpc' = "returned"
    /\ UNCHANGED <<configGiven, configOthers>>

NextConfig == InitializeAndValidateConfig

SpecConfig == InitConfig /\ [][NextConfig]_vars

\* ---- C24 ------------------------------------------------------------------
\* what the claim asks of the configuration as it was handed over, but for
\* its region and endpoint
ValidButRegion(c) ==
    /\ c.ExecutablePath # "" /\ c.Bucket # "" /\ c.Folder # ""
    /\ (c.AwsAccessKeyId = "") = (c.AwsSecretAccessKey = "")
    /\ (IF c.Encryption = "" THEN "on" ELSE c.Encryption) \in {"on", "off"}
    /\ c.BackupMultipartChunksize # <<>> => BytesizeParse(c.BackupMultipartChunksize).ok
    /\ c.RestoreMultipartChunksize # <<>> => BytesizeParse(c.RestoreMultipartChunksize).ok
    /\ c.BackupMaxConcurrentRequests # <<>> => Atoi(c.BackupMaxConcurrentRequests).ok
    /\ c.RestoreMaxConcurrentRequests # <<>> => Atoi(c.RestoreMaxConcurrentRequests).ok

\* C24 as claimed: nil is returned exactly when the three mandatory fields
\* are non-empty, the two keys are both set or both empty, at least one of
\* region and endpoint is set, encryption is "on" or "off" after its
\* default, and every given chunk-size and concurrency option parses
C24_NilExactlyWhenValid ==
    configpc = "returned" =>
        (configErr = <<>> <=>
            /\ ValidButRegion(configGiven)
            /\ configGiven.Region # "" \/ configGiven.Endpoint # "")

\* C24 as the code has it: the same, except that a region given as the text
\* "unused" counts as no region, since that text is the mark the function
\* itself puts in an empty region
C24_NilExactlyWhenValidRegion ==
    configpc = "returned" =>
        (configErr = <<>> <=>
            /\ ValidButRegion(configGiven)
            /\ configGiven.Region \notin {"", "unused"} \/ configGiven.Endpoint # "")

\* accepted without keys and region; refused for a region "unused" without
\* an endpoint
C24_Witness ==
    /\ configpc = "returned"
    /\ ValidButRegion(configGiven)
    /\ \/ /\ configGiven.AwsAccessKeyId = "" /\ configGiven.Region = ""
          /\ configGiven.RestoreMultipartChunksize # <<>>
          /\ configErr = <<>>
       \/ /\ configGiven.Region = "unused" /\ configGiven.Endpoint = ""
          /\ configErr # <<>>

\* ---- C25 ------------------------------------------------------------------
ConfigAccepted == configpc = "returned" /\ configErr = <<>>

\* C25: after a successful call, Region is "unused" if it was empty and
\* Encryption is "on" if it was empty (and both are as given otherwise);
\* each of the two chunk sizes is 500 MiB and each of the two concurrencies
\* is 6 when its option is empty, and the value of the option otherwise:
\* "10MB" is 10 * 1024 * 1024, "7mb" is 7 * 1024 * 1024, "10" is 10
C25_DefaultsAndValues ==
    ConfigAccepted =>
        /\ config.Region = IF configGiven.Region = "" THEN "unused" ELSE configGiven.Region
        /\ config.Encryption = IF configGiven.Encryption = "" THEN "on" ELSE configGiven.Encryption
        /\ configGiven.BackupMultipartChunksize = <<>> => config.UploadChunkSize = 500 * 1024 * 1024
        /\ configGiven.RestoreMultipartChunksize = <<>> => config.DownloadChunkSize = 500 * 1024 * 1024
        /\ configGiven.BackupMaxConcurrentRequests = <<>> => config.UploadConcurrency = 6
        /\ configGiven.RestoreMaxConcurrentRequests = <<>> => config.DownloadConcurrency = 6
        /\ configGiven.BackupMultipartChunksize = <<"1", "0", "M", "B">> =>
              config.UploadChunkSize = 10 * 1024 * 1024
        /\ configGiven.RestoreMultipartChunksize = <<"7", "m", "b">> =>
              config.DownloadChunkSize = 7 * 1024 * 1024
        /\ configGiven.BackupMaxConcurrentRequests = <<"1", "0">> => config.UploadConcurrency = 10
        /\ configGiven.RestoreMaxConcurrentRequests = <<"3">> => config.DownloadConcurrency = 3
        /\ \A f \in {"ExecutablePath", "AwsAccessKeyId", "AwsSecretAccessKey", "Bucket",
                     "Folder", "Endpoint", "BackupMultipartChunksize",
                     "BackupMaxConcurrentRequests", "RestoreMultipartChunksize",
                     "RestoreMaxConcurrentRequests"} : config[f] = configGiven[f]

\* defaults for the region, the encryption and the upload; values for the
\* download
C25_Witness ==
    /\ ConfigAccepted
    /\ configGiven.Region = "" /\ config.Region = "unused"
    /\ configGiven.Encryption = "" /\ config.Encryption = "on"
    /\ configGiven.BackupMultipartChunksize = <<>> /\ config.UploadChunkSize = DefaultUploadChunkSize
    /\ configGiven.BackupMaxConcurrentRequests = <<>> /\ config.UploadConcurrency = DefaultConcurrency
    /\ configGiven.RestoreMultipartChunksize = <<"7", "m", "b">> /\ config.DownloadChunkSize = 7 * Mebibyte
    /\ configGiven.RestoreMaxConcurrentRequests = <<"3">> /\ config.DownloadConcurrency = 3

\* ---- C29 ------------------------------------------------------------------
\* C29: whenever InitializeAndValidateConfig returns nil, both chunk sizes
\* are > 0 and both concurrencies are >= 1 (option texts such as "0", "-1"
\* or "0MB" are not accepted).
C29_PositiveSizes ==
    ConfigAccepted =>
        /\ config.UploadChunkSize > 0
        /\ config.DownloadChunkSize > 0
        /\ config.UploadConcurrency >= 1
        /\ config.DownloadConcurrency >= 1

\* ---- GetS3Path (s3plugin.go 292-307) ----------------------------------------
MaxSegments == 6

\* strings.Split(path, "/"): the segments between the separators; a text
\* without separator is one segment, the empty text one empty segment
RECURSIVE Split(_, _)
Split(text, current) ==
    IF text = <<>> THEN <<current>>
    ELSE IF Head(text) = "/" THEN <<current>> \o Split(Tail(text), <<>>)
    ELSE Split(Tail(text), Append(current, Head(text)))

\* strings.Join(segments, "/")
RECURSIVE Join(_)
Join(segments) ==
    IF segments = <<>> THEN <<>>
    ELSE IF Len(segments) = 1 THEN Head(segments)
    ELSE Head(segments) \o <<"/">> \o Join(Tail(segments))

\* pathArray[(len(pathArray)-4):]
LastThree(pathArray) == SubSeq(pathArray, Len(pathArray) - 2, Len(pathArray))
LastFour(pathArray) == SubSeq(pathArray, Len(pathArray) - 3, Len(pathArray))

\* lines 304-306; a path of fewer than four segments makes the slice
\* expression panic
GetS3Path(folder, filePath) ==
    LET pathArray == Split(filePath, <<>>)
    IN IF Len(pathArray) < 4
       THEN [panic |-> TRUE, value |-> <<>>]
       ELSE [panic |-> FALSE, value |-> folder \o <<"/">> \o Join(LastFour(pathArray))]

\* the paths tried: up to MaxSegments segments, each empty, "a" or "20180101",
\* written with "/" between them
Segments == {<<>>, <<"a">>, <<"2", "0", "1", "8">>}
SegmentLists == UNION {[1..n -> Segments] : n \in 1..MaxSegments}
Folders == {<<>>, <<"s", "3">>, <<"s", "3", "/", "D", "i", "r">>}

InitPath ==
    /\ \E f \in Folders, l \in SegmentLists : callArgs = <<f, Join(l), l>>
    /\ callResult = <<>>
    /\ callpc = "GetS3Path"
    /\ DownloadIdle /\ RetryIdle /\ DeleteIdle /\ ConfigIdle /\ DirIdle /\ RestoreIdle /\ UploadIdle

GetS3PathCall ==
    /\ callpc = "GetS3Path"
    /\ callResult' = GetS3Path(callArgs[1], callArgs[2])
    /\ callpc' = "returned"
    /\ UNCHANGED <<callArgs, callOthers>>

NextPath == GetS3PathCall

SpecPath == InitPath /\ [][NextPath]_vars

\* ---- C26 ------------------------------------------------------------------
\* C26: for a path of at least four "/"-separated segments GetS3Path returns
\* the folder, a "/", and the last four segments of the path with "/"
\* between them (the file name and its three parent directories).
C26_LastFourSegments ==
    callpc = "returned" /\ Len(callArgs[3]) >= 4 =>
        LET folder == callArgs[1]
            s == callArgs[3]
            n == Len(s)
        IN /\ ~callResult.panic
           /\ callResult.value =
                 folder \o <<"/">> \o s[n - 3] \o <<"/">> \o s[n - 2] \o <<"/">> \o s[n - 1]
                        \o <<"/">> \o s[n]

\* an absolute path of more than four segments under the folder s3/Dir
C26_Witness ==
    /\ callpc = "returned"
    /\ callArgs[1] = <<"s", "3", "/", "D", "i", "r">>
    /\ Len(callArgs[3]) = 6
    /\ callArgs[3][1] = <<>>
    /\ \A k \in 2..6 : callArgs[3][k] # <<>>
    /\ ~callResult.panic
    /\ Len(Split(callResult.value, <<>>)) = 6

\* ---- ShouldEnableEncryption (s3plugin.go 259-262) ---------------------------
MaxTextLen == 3

ToLower(s) ==
    [k \in 1..Len(s) |->
        CASE s[k] = "O" -> "o" [] s[k] = "F" -> "f" [] s[k] = "N" -> "n" [] OTHER -> s[k]]

\* strings.EqualFold: equal but for the case of the letters (none of the
\* letters of "off" has a further character that folds to it)
EqualExact(s, t) == s = t
EqualFold(s, t) == ToLower(s) = ToLower(t)

ShouldEnableEncryption(encryption) ==
    LET isOff == EqualFold(encryption, <<"o", "f", "f">>)
    IN ~isOff

\* the texts tried: all of up to MaxTextLen of these characters, and the
\* one of the test
EncryptionChars == {"o", "O", "f", "F", "n", " "}
EncryptionTexts ==
    UNION {[1..n -> EncryptionChars] : n \in 0..MaxTextLen}
    \cup {<<"r", "a", "n", "d", "o", "m", "_", "t", "e", "s", "t">>}

InitEncryption ==
    /\ \E t \in EncryptionTexts : callArgs = <<t>>
    /\ callResult = FALSE
    /\ callpc = "ShouldEnableEncryption"
    /\ DownloadIdle /\ RetryIdle /\ DeleteIdle /\ ConfigIdle /\ DirIdle /\ RestoreIdle /\ UploadIdle

ShouldEnableEncryptionCall ==
    /\ callpc = "ShouldEnableEncryption"
    /\ callResult' = ShouldEnableEncryption(callArgs[1])
    /\ callpc' = "returned"
    /\ UNCHANGED <<callArgs, callOthers>>

NextEncryption == ShouldEnableEncryptionCall

SpecEncryption == InitEncryption /\ [][NextEncryption]_vars

\* ---- C27 ------------------------------------------------------------------
\* the argument is "off" in some mixture of upper and lower case
IsOffAnyCase(t) ==
    /\ Len(t) = 3
    /\ t[1] \in {"o", "O"} /\ t[2] \in {"f", "F"} /\ t[3] \in {"f", "F"}

\* C27: ShouldEnableEncryption returns false exactly when its argument is
\* "off" in any mixture of upper and lower case, and true for every other
\* value: the empty text, "on", arbitrary text.
C27_OffOnly ==
    callpc = "returned" => (callResult = FALSE <=> IsOffAnyCase(callArgs[1]))

\* "oFF" disables encryption
C27_Witness ==
    /\ callpc = "returned"
    /\ callArgs[1] = <<"o", "F", "F">>
    /\ callResult = FALSE

\* ---- C28 ------------------------------------------------------------------
\* the main goroutine is in waitGroup.Wait()
MainWaiting == path = "parallel" /\ mainpc = "wait"

\* worker w cannot go on: nothing to receive from jobs, no buffer in the
\* pool, or nobody receiving from its completion channel
WorkerBlocked(w) ==
    \/ wpc[w] = "unstarted"
    \/ wpc[w] = "idle" /\ jobs = <<>>
    \/ wpc[w] = "acquire" /\ downloadBuffers = <<>>
    \/ wpc[w] = "signal" /\ ~(rpc = "wait" /\ ri = wjob[w].chunkIndex)

\* the reassembler cannot go on: nobody sending on the channel it receives
\* from, no room in the pool, or its loop is over
ReassemblerBlocked ==
    \/ rpc = "exit"
    \/ rpc = "wait" /\ \A w \in Workers : ~(wpc[w] = "signal" /\ wjob[w].chunkIndex = ri)
    \/ rpc = "release" /\ Len(downloadBuffers) >= numberOfWorkers

\* C28: with concurrency >= 1, chunkSize > 0 and totalBytes > chunkSize,
\* and every request returning in the end, downloadFileInParallel
\* terminates: the main goroutine never waits for good, since no reachable
\* state has it waiting on a WaitGroup that is not at zero while every
\* worker and the reassembler are blocked.
C28_ParallelTerminates ==
    /\ MainWaiting ~> ParallelReturned
    /\ [](MainWaiting /\ ReassemblerBlocked /\ (\A w \in Workers : WorkerBlocked(w))
             => waitGroup = 0 /\ ENABLED Return)

\* three chunks, one worker, a failed request and a failed write: returned
C28_Witness ==
    /\ ParallelReturned
    /\ downloadConcurrency >= 1 /\ downloadChunkSize > 0 /\ totalBytes > downloadChunkSize
    /\ Len(planned) = 3
    /\ numberOfWorkers = 1
    /\ \E c, d \in 0..2 : failed = {RequestErr(c), WriteErr(d)}
    /\ \A w \in Workers : WorkerBlocked(w)
    /\ ReassemblerBlocked

\* ---- C30 ------------------------------------------------------------------
\* C30: in a parallel download the destination never receives the buffer of
\* a chunk whose ranged request failed: every chunk the reassembler has
\* written had a request that succeeded.
C30_OnlySucceededWritten ==
    \A k \in 1..Len(writes) : RequestErr(writes[k]) \notin failed

\* ---- C37 ------------------------------------------------------------------
\* C37: a retryer whose NumMaxRetries is 0 never retries: ShouldRetry answers
\* false for every request, one with a 404 response, one with a connection
\* reset error and one that an earlier handler marked retryable included.
C37_ZeroNeverRetries ==
    retrypc = "returned" /\ retryer.NumMaxRetries = 0 => ~willRetry

\* a retryer with NumMaxRetries 0 was asked about a 404 response, or about a
\* connection reset, and answered false
C37_Witness ==
    /\ retrypc = "returned"
    /\ retryer.NumMaxRetries = 0
    /\ req.StatusCode = 404 \/ ConnectionReset
    /\ ~willRetry

\* ---- C31 ------------------------------------------------------------------
\* C31: when the size probe fails, or the single-shot request fails,
\* downloadFile returns (0, -1, err) and the destination is as it was: no
\* byte is written; after a failed probe no path was chosen, so no download
\* request was issued, no chunk was planned and no worker was started.
C31_FailureLeavesDestination ==
    /\ mainpc = "returned" /\ ret.err = ProbeErr =>
          /\ ret = Returned(0, -1, ProbeErr)
          /\ file = <<>> /\ writes = <<>>
          /\ path = "none" /\ failed = {ProbeErr}
          /\ planned = <<>> /\ counts = <<>>
          /\ NoParallelMachinery
    /\ mainpc = "returned" /\ ret.err = RequestErr(NoChunk) =>
          /\ ret = Returned(0, -1, RequestErr(NoChunk))
          /\ file = <<>> /\ writes = <<>>
          /\ path = "single" /\ failed = {RequestErr(NoChunk)}
          /\ NoParallelMachinery

\* the single-shot request for an object of exactly one chunk size failed
C31_Witness ==
    /\ mainpc = "returned"
    /\ totalBytes = downloadChunkSize
    /\ ret = Returned(0, -1, RequestErr(NoChunk))
    /\ file = <<>>

\* ---- RestoreDirectoryParallel (restore.go 113-195) and ---------------------
\* ---- BackupDirectoryParallel (s3plugin.go 458-525) -------------------------
MaxFiles == 2
MaxFileBytes == 2

\* the third command-line argument, when there is one
ParallelTexts == {<<"1">>, <<"2">>, <<"0">>, <<"x">>, <<"-", "1">>}
DirArguments ==
    {<<"config", "dir">>} \cup {<<"config", "dir", t>> : t \in ParallelTexts}

\* lines 116, 122-124: parallel is 5 unless a third argument is given;
\* the error of strconv.Atoi is dropped
ParallelOf(args) ==
    IF Len(args) = 3 THEN Atoi(args[3]).value ELSE DefaultParallel

OpenErr(f) == <<"open", f>>
TransferErr(f) == <<"transfer", f>>

\* the command was called: every list of up to MaxFiles files comes up
InitDirectory ==
    /\ dirCommand \in {"restore", "backup"}
    /\ dirArgs \in DirArguments
    /\ fileList \in UNION {[1..n -> 1..MaxFileBytes] : n \in 0..MaxFiles}
    /\ parallel = 0
    /\ fileChannel = <<>>
    /\ wg = 0
    /\ dirFinalErr = <<>>
    /\ dirTotalBytes = 0
    /\ numFiles = 0
    /\ dirpc = "start"
    /\ dirReported = NoReport
    /\ dwpc = [w \in DirWorkers |-> "unstarted"]
    /\ dwfile = [w \in DirWorkers |-> NoFile]
    /\ dwbytes = [w \in DirWorkers |-> 0]
    /\ dwtmp = [w \in DirWorkers |-> 0]
    /\ transferred = {}
    /\ DownloadIdle /\ RetryIdle /\ DeleteIdle /\ ConfigIdle /\ CallIdle /\ RestoreIdle /\ UploadIdle

\* restore.go 116-158, s3plugin.go 461-496: the jobs channel is filled and
\* closed, wg.Add(1) is called for every file, the workers are started
DirStart ==
    /\ dirpc = "start"
    /\ parallel' = ParallelOf(dirArgs)
    /\ fileChannel' = [k \in 1..Len(fileList) |-> k]
    /\ wg' = Len(fileList)
    /\ dwpc' = [w \in DirWorkers |-> IF w <= ParallelOf(dirArgs) THEN "range" ELSE "unstarted"]
    /\ dirpc' = "wait"
    /\ UNCHANGED <<dirCommand, dirArgs, fileList, dirFinalErr, dirTotalBytes,
                   numFiles, dirReported, dwfile, dwbytes, dwtmp, transferred>>
    /\ UNCHANGED dirOthers

\* restore.go 159, s3plugin.go 497: for fileKey := range jobs; the loop
\* ends when the closed channel is empty
DirReceive(w) ==
    /\ dirpc = "wait"
    /\ dwpc[w] = "range"
    /\ IF fileChannel # <<>>
       THEN /\ dwfile' = [dwfile EXCEPT ![w] = Head(fileChannel)]
            /\ fileChannel' = Tail(fileChannel)
            /\ dwpc' = [dwpc EXCEPT ![w] = "open"]
       ELSE /\ dwpc' = [dwpc EXCEPT ![w] = "exited"]
            /\ UNCHANGED <<dwfile, fileChannel>>
    /\ UNCHANGED <<dirCommand, dirArgs, parallel, fileList, wg, dirFinalErr,
                   dirTotalBytes, numFiles, dirpc, dirReported, dwbytes, dwtmp,
                   transferred>>
    /\ UNCHANGED dirOthers

\* where a worker goes on after os.Create or os.Open failed (restore.go
\* 167-170, s3plugin.go 499-502: finalErr = err; return)
AfterOpenErr == "exited"

\* restore.go 166-170: os.Create(localPath); s3plugin.go 498-502: os.Open
DirOpen(w) ==
    /\ dirpc = "wait"
    /\ dwpc[w] = "open"
    /\ \/ /\ dwpc' = [dwpc EXCEPT ![w] = "transfer"]
          /\ UNCHANGED dirFinalErr
       \/ /\ dirFinalErr' = OpenErr(dwfile[w])
          /\ dwpc' = [dwpc EXCEPT ![w] = AfterOpenErr]
    /\ UNCHANGED <<dirCommand, dirArgs, parallel, fileList, fileChannel, wg,
                   dirTotalBytes, numFiles, dirpc, dirReported, dwfile, dwbytes,
                   dwtmp, transferred>>
    /\ UNCHANGED dirOthers

\* restore.go 171, 179-181: downloadFile; s3plugin.go 503, 510-512:
\* uploadFile.  On an error finalErr is stored and gplog.FatalOnError
\* panics in the worker's goroutine, which ends the process
DirTransfer(w) ==
    /\ dirpc = "wait"
    /\ dwpc[w] = "transfer"
    /\ \/ /\ dwbytes' = [dwbytes EXCEPT ![w] = fileList[dwfile[w]]]
          /\ transferred' = transferred \cup {dwfile[w]}
          /\ dwpc' = [dwpc EXCEPT ![w] = "readTotal"]
          /\ UNCHANGED <<dirFinalErr, dirpc>>
       \/ /\ dirFinalErr' = TransferErr(dwfile[w])
          /\ dwpc' = [dwpc EXCEPT ![w] = "panicked"]
          /\ dirpc' = "panicked"
          /\ UNCHANGED <<dwbytes, transferred>>
    /\ UNCHANGED <<dirCommand, dirArgs, parallel, fileList, fileChannel, wg,
                   dirTotalBytes, numFiles, dirReported, dwfile, dwtmp>>
    /\ UNCHANGED dirOthers

\* restore.go 173, s3plugin.go 505: totalBytes += bytes, the load
DirReadTotal(w) ==
    /\ dirpc = "wait"
    /\ dwpc[w] = "readTotal"
    /\ dwtmp' = [dwtmp EXCEPT ![w] = dirTotalBytes]
    /\ dwpc' = [dwpc EXCEPT ![w] = "writeTotal"]
    /\ UNCHANGED <<dirCommand, dirArgs, parallel, fileList, fileChannel, wg,
                   dirFinalErr, dirTotalBytes, numFiles, dirpc, dirReported,
                   dwfile, dwbytes, transferred>>
    /\ UNCHANGED dirOthers

\* restore.go 173, s3plugin.go 505: totalBytes += bytes, the store
DirWriteTotal(w) ==
    /\ dirpc = "wait"
    /\ dwpc[w] = "writeTotal"
    /\ dirTotalBytes' = dwtmp[w] + dwbytes[w]
    /\ dwpc' = [dwpc EXCEPT ![w] = IF dirCommand = "restore" THEN "readNum" ELSE "done"]
    /\ UNCHANGED <<dirCommand, dirArgs, parallel, fileList, fileChannel, wg,
                   dirFinalErr, numFiles, dirpc, dirReported, dwfile, dwbytes,
                   dwtmp, transferred>>
    /\ UNCHANGED dirOthers

\* restore.go 174: numFiles++, the load
DirReadNum(w) ==
    /\ dirpc = "wait"
    /\ dwpc[w] = "readNum"
    /\ dwtmp' = [dwtmp EXCEPT ![w] = numFiles]
    /\ dwpc' = [dwpc EXCEPT ![w] = "writeNum"]
    /\ UNCHANGED <<dirCommand, dirArgs, parallel, fileList, fileChannel, wg,
                   dirFinalErr, dirTotalBytes, numFiles, dirpc, dirReported,
                   dwfile, dwbytes, transferred>>
    /\ UNCHANGED dirOthers

\* restore.go 174: numFiles++, the store
DirWriteNum(w) ==
    /\ dirpc = "wait"
    /\ dwpc[w] = "writeNum"
    /\ numFiles' = dwtmp[w] + 1
    /\ dwpc' = [dwpc EXCEPT ![w] = "done"]
    /\ UNCHANGED <<dirCommand, dirArgs, parallel, fileList, fileChannel, wg,
                   dirFinalErr, dirTotalBytes, dirpc, dirReported, dwfile,
                   dwbytes, dwtmp, transferred>>
    /\ UNCHANGED dirOthers

\* restore.go 184-185, s3plugin.go 514-515: file.Close(); wg.Done()
DirDone(w) ==
    /\ dirpc = "wait"
    /\ dwpc[w] = "done"
    /\ wg' = wg - 1
    /\ dwpc' = [dwpc EXCEPT ![w] = "range"]
    /\ dwfile' = [dwfile EXCEPT ![w] = NoFile]
    /\ UNCHANGED <<dirCommand, dirArgs, parallel, fileList, fileChannel,
                   dirFinalErr, dirTotalBytes, numFiles, dirpc, dirReported,
                   dwbytes, dwtmp, transferred>>
    /\ UNCHANGED dirOthers

\* restore.go 190-194, s3plugin.go 520-524: wg.Wait() is over; the totals
\* are printed and finalErr is returned
DirReturn ==
    /\ dirpc = "wait"
    /\ wg = 0
    /\ dirReported' = [numFiles |-> IF dirCommand = "restore" THEN numFiles ELSE Len(fileList),
                       totalBytes |-> dirTotalBytes,
                       err |-> dirFinalErr]
    /\ dirpc' = "returned"
    /\ UNCHANGED <<dirCommand, dirArgs, parallel, fileList, fileChannel, wg,
                   dirFinalErr, dirTotalBytes, numFiles, dwpc, dwfile, dwbytes,
                   dwtmp, transferred>>
    /\ UNCHANGED dirOthers

DirWorker(w) ==
    \/ DirReceive(w)
    \/ DirOpen(w)
    \/ DirTransfer(w)
    \/ DirReadTotal(w)
    \/ DirWriteTotal(w)
    \/ DirReadNum(w)
    \/ DirWriteNum(w)
    \/ DirDone(w)

NextDirectory ==
    \/ DirStart
    \/ \E w \in DirWorkers : DirWorker(w)
    \/ DirReturn

SpecDirectory == InitDirectory /\ [][NextDirectory]_vars

\* ---- C32 ------------------------------------------------------------------
\* every worker that was started has left its loop
WorkersGone == \A w \in DirWorkers : dwpc[w] \in {"unstarted", "exited"}

\* C32: RestoreDirectoryParallel and BackupDirectoryParallel always return:
\* whatever the number of files, the worker count from the command line (0
\* from an unparsable argument included) and the outcome of creating or
\* opening a local file, the wait on the wait group completes; so the
\* command is never left waiting on a counter above zero when no worker is
\* there to bring it down.
C32_WaitCompletes ==
    ~(dirpc = "wait" /\ wg > 0 /\ WorkersGone)

\* ---- C33 ------------------------------------------------------------------
RECURSIVE SumBytes(_)
SumBytes(files) ==
    IF files = {} THEN 0
    ELSE LET f == CHOOSE g \in files : TRUE
         IN fileList[f] + SumBytes(files \ {f})

\* C33: under every interleaving of the workers the totals reported at the
\* end are the number of files transferred without error (restore) and the
\* sum of their byte counts (restore and backup): no update of the shared
\* counters is lost.
C33_TotalsExact ==
    dirpc = "returned" =>
        /\ dirReported.totalBytes = SumBytes(transferred)
        /\ dirCommand = "restore" => dirReported.numFiles = Cardinality(transferred)

\* ---- RestoreFile (restore.go 29-54) and RestoreDirectory (56-111) ---------
MaxKeys == 2

\* the name the operating system resolves a text to, relative to the
\* working directory: its segments without the empty ones and without "."
RECURSIVE CleanSegments(_)
CleanSegments(segments) ==
    IF segments = <<>> THEN <<>>
    ELSE IF Head(segments) \in {<<>>, <<".">>} THEN CleanSegments(Tail(segments))
    ELSE <<Head(segments)>> \o CleanSegments(Tail(segments))
Clean(text) == CleanSegments(Split(text, <<>>))

\* strings.HasSuffix(key, "/") and strings.Contains(key, "/")
HasSuffixSlash(text) == text # <<>> /\ text[Len(text)] = "/"
ContainsSlash(text) == \E k \in 1..Len(text) : text[k] = "/"

\* lines 76-85: the last segment of a key with a separator, and the zero
\* value of the string variable for a key without one
FilenameOf(key) ==
    IF ContainsSlash(key)
    THEN LET s3FileFullPathList == Split(key, <<>>)
         IN s3FileFullPathList[Len(s3FileFullPathList)]
    ELSE <<>>

\* the files on the disk: os.Create makes or truncates one, a transfer fills
\* it, os.Remove takes one away and fails when there is none
Created(files, name) == [p \in DOMAIN files \cup {name} |-> IF p = name THEN "empty" ELSE files[p]]
Filled(files, name, content) == [files EXCEPT ![name] = content]
RemoveNothing(files, name) == files
Remove(files, name) == [p \in DOMAIN files \ {name} |-> files[p]]

\* line 44: os.Remove(fileName); line 95: os.Remove(filename)
RemovedByRestoreFile(fileName, base, created) == fileName
RemovedByRestoreDirectory(fileName, base, created) == base

ErrCreate(name) == <<"os.Create", name>>
ErrDownload(key) == <<"downloadFile", key>>

\* the arguments tried: a file of a backup set and a bare file name for
\* RestoreFile, a directory and the working directory for RestoreDirectory
RestoreFileNames ==
    {<<"b", "/", "2", "/", "2", "/", "f">>, <<"f">>}
RestoreDirNames == {<<"d">>, <<".">>}
\* what a listing with the prefix dirName can hold: files below it, a
\* directory marker, and a key that goes on without a separator
KeySuffixes == {<<"/", "a">>, <<"/", "b">>, <<"/", "s", "/">>, <<"a">>}
Listings(dirName) ==
    UNION {[1..n -> {dirName \o x : x \in KeySuffixes}] : n \in 0..MaxKeys}
\* the disk before the command: nothing, or an old file with the name of
\* the command's argument or one named "a" in the working directory
NoFiles == [p \in {} |-> "old"]
OldFile(name) == [p \in {name} |-> "old"]
RestoreFolder == <<"s", "3">>

InitRestore ==
    /\ restoreCommand \in {"RestoreFile", "RestoreDirectory"}
    /\ IF restoreCommand = "RestoreFile"
       THEN /\ restoreArg \in RestoreFileNames
            /\ listing = <<>>
            /\ disk \in {NoFiles, OldFile(Clean(restoreArg))}
       ELSE /\ restoreArg \in RestoreDirNames
            /\ listing \in Listings(restoreArg)
            /\ disk \in {NoFiles, OldFile(<<<<"a">>>>)}
    /\ restorepc = "start"
    /\ restoreErr = <<>>
    /\ restoreIndex = 0
    /\ filename = <<>>
    /\ localPath = <<>>
    /\ restoreTotals = [numFiles |-> 0, totalBytes |-> 0]
    /\ downloads = <<>>
    /\ restoredFiles = <<>>
    /\ DownloadIdle /\ RetryIdle /\ DeleteIdle /\ ConfigIdle /\ CallIdle /\ DirIdle /\ UploadIdle

\* lines 30-36 and 57-74: the configuration is read; RestoreFile computes
\* the key (GetS3Path panics on a name of fewer than four segments),
\* RestoreDirectory lists the bucket
RestoreStart ==
    /\ restorepc = "start"
    /\ \/ /\ restoreErr' = ErrConfig
          /\ restorepc' = "returned"
          /\ UNCHANGED <<restoreIndex, localPath>>
       \/ /\ restoreCommand = "RestoreFile"
          /\ IF GetS3Path(RestoreFolder, restoreArg).panic
             THEN restorepc' = "panicked" /\ UNCHANGED localPath
             ELSE restorepc' = "create" /\ localPath' = restoreArg
          /\ UNCHANGED <<restoreErr, restoreIndex>>
       \/ /\ restoreCommand = "RestoreDirectory"
          /\ restorepc' = "loop"
          /\ restoreIndex' = 1
          /\ UNCHANGED <<restoreErr, localPath>>
    /\ UNCHANGED <<restoreCommand, restoreArg, listing, disk, filename,
                   restoreTotals, downloads, restoredFiles>>
    /\ UNCHANGED restoreOthers

\* lines 75-86 and 108-110: the next key of the listing; a key ending in
\* "/" is skipped
RestoreLoop ==
    /\ restorepc = "loop"
    /\ IF restoreIndex > Len(listing)
       THEN /\ restorepc' = "returned"
            /\ UNCHANGED <<restoreIndex, filename, localPath>>
       ELSE IF HasSuffixSlash(listing[restoreIndex])
       THEN /\ restoreIndex' = restoreIndex + 1
            /\ UNCHANGED <<restorepc, filename, localPath>>
       ELSE /\ filename' = FilenameOf(listing[restoreIndex])
            /\ localPath' = restoreArg \o <<"/">> \o FilenameOf(listing[restoreIndex])
            /\ restorepc' = "create"
            /\ UNCHANGED restoreIndex
    /\ UNCHANGED <<restoreCommand, restoreArg, listing, disk, restoreErr,
                   restoreTotals, downloads, restoredFiles>>
    /\ UNCHANGED restoreOthers

\* a name that names a directory: the working directory or, for
\* RestoreDirectory, dirName (line 69: os.MkdirAll)
IsDirectory(name) ==
    \/ name = <<>>
    \/ restoreCommand = "RestoreDirectory" /\ name = Clean(restoreArg)

\* lines 37-41 and 87-90: os.Create; it fails on a directory and may fail
\* on anything else
RestoreCreate ==
    /\ restorepc = "create"
    /\ \/ /\ ~IsDirectory(Clean(localPath))
          /\ disk' = Created(disk, Clean(localPath))
          /\ restorepc' = "download"
          /\ UNCHANGED restoreErr
       \/ /\ restoreErr' = ErrCreate(localPath)
          /\ restorepc' = "returned"
          /\ UNCHANGED disk
    /\ UNCHANGED <<restoreCommand, restoreArg, listing, restoreIndex, filename,
                   localPath, restoreTotals, downloads, restoredFiles>>
    /\ UNCHANGED restoreOthers

\* the key handed to downloadFile (lines 36 and 92)
RestoreKey ==
    IF restoreCommand = "RestoreFile"
    THEN GetS3Path(RestoreFolder, restoreArg).value
    ELSE listing[restoreIndex]

\* lines 42-53 and 92-105: downloadFile into the file just created.  A
\* download that fails may have written a part of the object; the command
\* then calls os.Remove and returns the error
RestoreDownload ==
    /\ restorepc = "download"
    /\ downloads' = Append(downloads, RestoreKey)
    /\ \/ /\ disk' = Filled(disk, Clean(localPath), "complete")
          /\ restoredFiles' = Append(restoredFiles, Clean(localPath))
          /\ restoreTotals' = [numFiles |-> restoreTotals.numFiles + 1,
                               totalBytes |-> restoreTotals.totalBytes + Len(RestoreKey)]
          /\ IF restoreCommand = "RestoreFile"
             THEN restorepc' = "returned" /\ UNCHANGED restoreIndex
             ELSE restorepc' = "loop" /\ restoreIndex' = restoreIndex + 1
          /\ UNCHANGED restoreErr
       \/ /\ \E content \in {"empty", "partial"} :
                LET target == IF restoreCommand = "RestoreFile"
                              THEN RemovedByRestoreFile(restoreArg, filename, localPath)
                              ELSE RemovedByRestoreDirectory(restoreArg, filename, localPath)
                IN disk' = Remove(Filled(disk, Clean(localPath), content), Clean(target))
          /\ restoreErr' = ErrDownload(RestoreKey)
          /\ restorepc' = "returned"
          /\ UNCHANGED <<restoredFiles, restoreTotals, restoreIndex>>
    /\ UNCHANGED <<restoreCommand, restoreArg, listing, filename, localPath>>
    /\ UNCHANGED restoreOthers

NextRestore ==
    \/ RestoreStart
    \/ RestoreLoop
    \/ RestoreCreate
    \/ RestoreDownload

SpecRestore == InitRestore /\ [][NextRestore]_vars

\* ---- C34 ------------------------------------------------------------------
DownloadFailed == restorepc = "returned" /\ restoreErr # <<>> /\ restoreErr[1] = "downloadFile"

C35_RestoreDirectoryCleansUp ==
    restoreCommand = "RestoreDirectory" /\ DownloadFailed =>
        /\ Clean(restoreArg \o <<"/">> \o filename) \notin DOMAIN disk
        /\ restoreErr = ErrDownload(listing[restoreIndex])
        /\ downloads[Len(downloads)] = listing[restoreIndex]
        /\ \A k \in 1..Len(restoredFiles) :
              restoredFiles[k] \in DOMAIN disk /\ disk[restoredFiles[k]] = "complete"

\* ---- uploadFile (s3plugin.go 546-599) --------------------------------------
MaxUploadBytes == 2

\* the backup options tried: not set, well formed, malformed
UploadOptions ==
    [BackupMultipartChunksize : {<<>>, <<"1", "0", "M", "B">>, <<"1", "0">>},
     BackupMaxConcurrentRequests : {<<>>, <<"3">>, <<"1", "a">>}]

\* lines 577-587 and 589-599: a text that is set must parse
GetUploadChunkSizeFails(options) ==
    options.BackupMultipartChunksize # <<>> /\ ~BytesizeParse(options.BackupMultipartChunksize).ok
GetUploadConcurrencyFails(options) ==
    options.BackupMaxConcurrentRequests # <<>> /\ ~Atoi(options.BackupMaxConcurrentRequests).ok

ErrParse == [tab |-> "Parse", data |-> NoChunk]
ErrUpload == [tab |-> "Upload", data |-> NoChunk]
ErrHead(status) == [tab |-> "HeadObject", data |-> status]

\* the answers of S3 to HeadObject: the object, not (yet) there, forbidden
HeadAnswers == {200, 404, 403}
HeadError(status) ==
    IF status = 404 THEN ServiceError("NotFound", "Not Found", "terminal")
    ELSE ServiceError("AccessDenied", "Access Denied", "terminal")

\* request.Request.WillRetry of the SDK, after its retry handler has asked
\* the retryer: retry if the retryer says so and attempts are left
WillRetryOnce(r, request) ==
    ShouldRetry(r, request) /\ request.RetryCount < 1
WillRetry(r, request) ==
    ShouldRetry(r, request) /\ request.RetryCount < r.NumMaxRetries

\* whether getFileSize is called after uploader.Upload returned err
ProbeAfter(err) == err = NilErr

InitUpload ==
    /\ uploadOptions \in UploadOptions
    /\ uploadObject \in 0..MaxUploadBytes
    /\ headReq = NoRequest
    /\ uploadpc = "start"
    /\ uploadRet = NoRet
    /\ uploadCalls = <<>>
    /\ DownloadIdle /\ RetryIdle /\ DeleteIdle /\ ConfigIdle /\ CallIdle /\ DirIdle /\ RestoreIdle

\* lines 550-557: the two options are parsed
UploadStart ==
    /\ uploadpc = "start"
    /\ IF GetUploadChunkSizeFails(uploadOptions) \/ GetUploadConcurrencyFails(uploadOptions)
       THEN uploadRet' = Returned(0, -1, ErrParse) /\ uploadpc' = "returned"
       ELSE uploadpc' = "upload" /\ UNCHANGED uploadRet
    /\ UNCHANGED <<uploadOptions, uploadObject, headReq, uploadCalls>>
    /\ UNCHANGED uploadOthers

\* lines 559-572: uploader.Upload
UploadBody ==
    /\ uploadpc = "upload"
    /\ \E err \in {NilErr, ErrUpload} :
          /\ uploadCalls' = Append(uploadCalls, <<"Upload", err.tab>>)
          /\ IF ProbeAfter(err)
             THEN uploadpc' = "probe" /\ UNCHANGED uploadRet
             ELSE uploadRet' = Returned(0, -1, err) /\ uploadpc' = "returned"
    /\ UNCHANGED <<uploadOptions, uploadObject, headReq>>
    /\ UNCHANGED uploadOthers

\* line 573 with 279-290: one attempt of the HeadObject request; its answer
\* carries the size of the object
HeadSend ==
    /\ uploadpc = "probe"
    /\ \E status \in HeadAnswers :
          /\ uploadCalls' = Append(uploadCalls, <<"HeadObject", status>>)
          /\ IF status = 200
             THEN /\ headReq' = [headReq EXCEPT !.StatusCode = 200, !.Error = NoError]
                  /\ uploadRet' = Returned(uploadObject, 0, NilErr)
                  /\ uploadpc' = "returned"
             ELSE /\ headReq' = [headReq EXCEPT !.StatusCode = status, !.Error = HeadError(status)]
                  /\ uploadpc' = "retry"
                  /\ UNCHANGED uploadRet
    /\ UNCHANGED <<uploadOptions, uploadObject>>
    /\ UNCHANGED uploadOthers

\* line 284: req.Send() after a failed attempt: the session's retryer
\* (line 226) is asked; the request is sent again or its error is returned
\* (lines 286-288, 574)
HeadRetry ==
    /\ uploadpc = "retry"
    /\ IF WillRetry(retryer, headReq)
       THEN /\ headReq' = [headReq EXCEPT !.RetryCount = @ + 1, !.Error = NoError]
            /\ uploadpc' = "probe"
            /\ UNCHANGED uploadRet
       ELSE /\ uploadRet' = Returned(0, 0, ErrHead(headReq.StatusCode))
            /\ uploadpc' = "returned"
            /\ UNCHANGED headReq
    /\ UNCHANGED <<uploadOptions, uploadObject, uploadCalls>>
    /\ UNCHANGED uploadOthers

NextUpload ==
    \/ UploadStart
    \/ UploadBody
    \/ HeadSend
    \/ HeadRetry

SpecUpload == InitUpload /\ [][NextUpload]_vars

\* ---- C36 ------------------------------------------------------------------
\* the attempts of the HeadObject request so far
HeadAttempts == {k \in 1..Len(uploadCalls) : uploadCalls[k][1] = "HeadObject"}
UploadReturned == uploadpc = "returned" /\ uploadRet.returned

\* C36: uploadFile probes the size of the object only after the upload has
\* succeeded and returns the probed size as the byte count; a 404 answer to
\* the probe is retried until the probe succeeds or the retry cap of the
\* session (10 retries, 11 attempts) is reached; a failed upload returns
\* (0, -1, err) without any probe.
C36_ProbeAfterUpload ==
    /\ \A k \in HeadAttempts : k > 1 /\ uploadCalls[1] = <<"Upload", NilErr.tab>>
    /\ UploadReturned /\ uploadRet.err = NilErr =>
          /\ uploadRet.bytes = uploadObject
          /\ uploadCalls[Len(uploadCalls)] = <<"HeadObject", 200>>
    /\ UploadReturned /\ uploadRet.err = ErrHead(404) =>
          /\ Cardinality(HeadAttempts) = SessionMaxRetries + 1
          /\ \A k \in HeadAttempts : uploadCalls[k] = <<"HeadObject", 404>>
    /\ UploadReturned /\ uploadRet.err = ErrUpload =>
          /\ uploadRet = Returned(0, -1, ErrUpload)
          /\ HeadAttempts = {}

\* the object became visible at the third attempt of the probe
C36_Witness ==
    /\ UploadReturned
    /\ uploadRet = Returned(uploadObject, 0, NilErr)
    /\ uploadObject = MaxUploadBytes
    /\ uploadCalls = <<<<"Upload", NilErr.tab>>, <<"HeadObject", 404>>,
                       <<"HeadObject", 404>>, <<"HeadObject", 200>>>>

====
